---- MODULE Spec2Model ----
(***************************************************************************)
(* Furigana alignment engine of generate_decks.py (class                   *)
(* FuriganaGenerator) and the caller that drives it.                       *)
(*                                                                         *)
(* Representation.  A Python str is a sequence of Unicode code points      *)
(* (integers), so that ordering (sorted), the katakana->hiragana offset    *)
(* and the kanji range test are computed as the code computes them.        *)
(* The four markup literals of the f-strings are single reserved negative  *)
(* codes (no character has a negative code point).  Python's None is the   *)
(* one-element sequence <<NONE>>.                                          *)
(***************************************************************************)
EXTENDS Integers, Sequences, FiniteSets, TLC

(* ---------------------------- bounds ----------------------------------- *)
MaxSurfaceLen == 3
MaxReadingLen == 3
MaxHashSeed == 1
MaxSplitLen == 5
MaxValid == 3

(* ------------------------- program constants --------------------------- *)
KANJI_LO == 19968
KANJI_HI == 40879
ITERATION_MARK == 12293
KATAKANA_LO == 12449
KATAKANA_HI == 12534
KANA_OFFSET == 96
SLASH == 47
NONE == -1
RUBY_OPEN == -2
RT_OPEN == -3
RUBY_CLOSE == -4
KANJI_SPACE == -5

(* characters the inputs are drawn from *)
DAI == 22823
KA == 12363
GA == 12364
KATAKANA_KA == 12459

None == <<NONE>>

SurfaceChars == {DAI, ITERATION_MARK, KATAKANA_KA}
KanaChars == {KA, GA}

StringsOver(chars, maxlen) == UNION {[1..n -> chars] : n \in 0..maxlen}

Surfaces == StringsOver(SurfaceChars, MaxSurfaceLen)
KanaReadings == StringsOver(KanaChars, MaxReadingLen)
\* readings that list alternatives: kana, a slash, kana
SlashReadings ==
    {a \o <<SLASH>> \o b : a, b \in StringsOver(KanaChars, 1)}
TargetReadings == KanaReadings \cup SlashReadings \cup {None}

(* ------------------------- Python primitives --------------------------- *)
Min(a, b) == IF a < b THEN a ELSE b

\* s[a:b] with Python's clamping of the end index (0-based, half-open)
Slice(s, a, b) ==
    LET hi == Min(b, Len(s))
    IN  IF a >= hi THEN <<>> ELSE SubSeq(s, a + 1, hi)

\* a < b on str: lexicographic by code point, a proper prefix is smaller
StrLess(a, b) ==
    \/ /\ Len(a) < Len(b)
       /\ SubSeq(b, 1, Len(a)) = a
    \/ \E i \in 1..Min(Len(a), Len(b)) :
          /\ a[i] < b[i]
          /\ \A j \in 1..(i - 1) : a[j] = b[j]

\* tuple comparison of two equally long tuples of ints (line 270)
TupleGreater(a, b) ==
    \E i \in 1..Min(Len(a), Len(b)) :
        /\ a[i] > b[i]
        /\ \A j \in 1..(i - 1) : a[j] = b[j]

RECURSIVE sorted(_)
sorted(S) ==
    IF S = {} THEN <<>>
    ELSE LET m == CHOOSE x \in S : \A y \in S \ {x} : StrLess(x, y)
         IN  <<m>> \o sorted(S \ {m})

\* list(a_set): the iteration order of a set of str depends on the string
\* hashes, which the interpreter randomises per process.  seed selects one of
\* the permutations (factorial number system over the sorted elements);
\* seed 0 is ascending order.
RECURSIVE list_of_set(_, _)
list_of_set(seed, S) ==
    IF S = {} THEN <<>>
    ELSE LET srt == sorted(S)
             n == Len(srt)
             x == srt[(seed % n) + 1]
         IN  <<x>> \o list_of_set(seed \div n, S \ {x})

\* "".join(parts)
RECURSIVE join(_)
join(parts) ==
    IF parts = <<>> THEN <<>> ELSE Head(parts) \o join(Tail(parts))

\* a product in which the leftmost list varies fastest
RECURSIVE product_leftmost_fastest(_)
product_leftmost_fastest(lists) ==
    IF lists = <<>> THEN << <<>> >>
    ELSE LET h == Head(lists)
             rest == product_leftmost_fastest(Tail(lists))
             n == Len(h)
         IN  [k \in 1..(n * Len(rest)) |->
                 <<h[((k - 1) % n) + 1]>> \o rest[((k - 1) \div n) + 1]]

\* itertools.product(*lists): leftmost list varies slowest
RECURSIVE product(_)
product(lists) ==
    IF lists = <<>> THEN << <<>> >>
    ELSE LET h == Head(lists)
             rest == product(Tail(lists))
             m == Len(rest)
         IN  [k \in 1..(Len(h) * m) |->
                 <<h[((k - 1) \div m) + 1]>> \o rest[((k - 1) % m) + 1]]

Range(s) == {s[i] : i \in 1..Len(s)}

(* --------------------------- FuriganaGenerator ------------------------- *)
is_kanji_class(ch) ==
    (KANJI_LO <= ch /\ ch <= KANJI_HI) \/ ch = ITERATION_MARK

\* a contains_kanji whose range starts at U+3000 (kana count as kanji)
contains_kanji_wide_range(text) ==
    \E i \in 1..Len(text) :
        (12288 <= text[i] /\ text[i] <= KANJI_HI) \/ text[i] = ITERATION_MARK

contains_kanji(text) == \E i \in 1..Len(text) : is_kanji_class(text[i])

_katakana_to_hiragana(text) ==
    [i \in 1..Len(text) |->
        IF KATAKANA_LO <= text[i] /\ text[i] <= KATAKANA_HI
        THEN text[i] - KANA_OFFSET
        ELSE text[i]]

rendaku_map ==
    (12363 :> 12364) @@ (12365 :> 12366) @@ (12367 :> 12368) @@ (12369 :> 12370) @@
    (12371 :> 12372) @@ (12373 :> 12374) @@ (12375 :> 12376) @@ (12377 :> 12378) @@
    (12379 :> 12380) @@ (12381 :> 12382) @@ (12383 :> 12384) @@ (12385 :> 12386) @@
    (12388 :> 12389) @@ (12390 :> 12391) @@ (12392 :> 12393) @@ (12399 :> 12400) @@
    (12402 :> 12403) @@ (12405 :> 12406) @@ (12408 :> 12409) @@ (12411 :> 12412)

mapping ==
    (12363 :> 12364) @@ (12365 :> 12366) @@ (12367 :> 12368) @@ (12369 :> 12370) @@
    (12371 :> 12372) @@ (12373 :> 12374) @@ (12375 :> 12376) @@ (12377 :> 12378) @@
    (12379 :> 12380) @@ (12381 :> 12382) @@ (12383 :> 12384) @@ (12385 :> 12386) @@
    (12388 :> 12389) @@ (12390 :> 12391) @@ (12392 :> 12393) @@ (12399 :> 12400) @@
    (12402 :> 12403) @@ (12405 :> 12406) @@ (12408 :> 12409) @@ (12411 :> 12412)

\* load_jmdict: file is [exists, entries]; entries is the parsed <entry> list,
\* each entry a record [k_ele: list of keb texts (None: no text), r_ele: list
\* of reb texts].  Later entries overwrite earlier ones with the same keb.
RECURSIVE load_entries(_, _)
load_entries(entries, word_dict) ==
    IF entries = <<>> THEN word_dict
    ELSE LET entry == Head(entries)
             kebs == {entry.k_ele[i] : i \in 1..Len(entry.k_ele)} \ {None}
             added == [kanji_word \in kebs |-> entry.r_ele]
         IN  load_entries(Tail(entries), added @@ word_dict)

\* a load_jmdict that answers an absent file with a built-in mapping
load_jmdict_builtin_mapping(file) ==
    IF ~file.exists
    THEN [word_dict |-> (<<DAI, ITERATION_MARK>> :> << <<GA, GA>> >>),
          out |-> <<"JMdict file not found">>]
    ELSE [word_dict |-> load_entries(file.entries, <<>>), out |-> <<>>]

load_jmdict(file) ==
    IF ~file.exists
    THEN [word_dict |-> <<>>, out |-> <<"JMdict file not found">>]
    ELSE [word_dict |-> load_entries(file.entries, <<>>), out |-> <<>>]

\* a _get_candidate_readings whose debug branch returns before the rendaku
\* variants are added
_get_candidate_readings_debug_returns_early(self, kanji) ==
    LET tokens == self.tokenizer_obj[kanji]
        from_tokens == {_katakana_to_hiragana(tokens[i]) :
                           i \in {j \in 1..Len(tokens) : tokens[j] # <<>>}}
        from_dict == IF kanji \in DOMAIN self.word_dict
                     THEN Range(self.word_dict[kanji])
                     ELSE {}
        candidates == from_tokens \cup from_dict
        additional == {<<rendaku_map[cand[1]]>> \o Tail(cand) :
                          cand \in {c \in candidates :
                                       c # <<>> /\ c[1] \in DOMAIN rendaku_map}}
        all == IF self.debug_mode THEN candidates ELSE candidates \cup additional
    IN  IF all = {} THEN {kanji} ELSE all

\* a _get_candidate_readings without the fallback to the character itself
_get_candidate_readings_no_fallback(self, kanji) ==
    LET tokens == self.tokenizer_obj[kanji]
        from_tokens == {_katakana_to_hiragana(tokens[i]) :
                           i \in {j \in 1..Len(tokens) : tokens[j] # <<>>}}
        from_dict == IF kanji \in DOMAIN self.word_dict
                     THEN Range(self.word_dict[kanji])
                     ELSE {}
        candidates == from_tokens \cup from_dict
        additional == {<<rendaku_map[cand[1]]>> \o Tail(cand) :
                          cand \in {c \in candidates :
                                       c # <<>> /\ c[1] \in DOMAIN rendaku_map}}
    IN  candidates \cup additional

\* a _get_candidate_readings whose rendaku variant voices every kana of a
\* candidate, not only the first
_get_candidate_readings_voices_every_kana(self, kanji) ==
    LET tokens == self.tokenizer_obj[kanji]
        from_tokens == {_katakana_to_hiragana(tokens[i]) :
                           i \in {j \in 1..Len(tokens) : tokens[j] # <<>>}}
        from_dict == IF kanji \in DOMAIN self.word_dict
                     THEN Range(self.word_dict[kanji])
                     ELSE {}
        candidates == from_tokens \cup from_dict
        additional == {[i \in 1..Len(cand) |->
                           IF cand[i] \in DOMAIN rendaku_map
                           THEN rendaku_map[cand[i]] ELSE cand[i]] :
                          cand \in {c \in candidates :
                                       c # <<>> /\ c[1] \in DOMAIN rendaku_map}}
        all == candidates \cup additional
    IN  IF all = {} THEN {kanji} ELSE all

\* self is the record of instance attributes:
\*   tokenizer_obj : single-character text -> list of token reading forms
\*   word_dict, global_debug, debug_words, debug_mode, cache
\*   hashseed : the process's string-hash seed (fixes set iteration order)
_get_candidate_readings(self, kanji) ==
    LET tokens == self.tokenizer_obj[kanji]
        from_tokens == {_katakana_to_hiragana(tokens[i]) :
                           i \in {j \in 1..Len(tokens) : tokens[j] # <<>>}}
        from_dict == IF kanji \in DOMAIN self.word_dict
                     THEN Range(self.word_dict[kanji])
                     ELSE {}
        candidates == from_tokens \cup from_dict
        additional == {<<rendaku_map[cand[1]]>> \o Tail(cand) :
                          cand \in {c \in candidates :
                                       c # <<>> /\ c[1] \in DOMAIN rendaku_map}}
        all == candidates \cup additional
    IN  IF all = {} THEN {kanji} ELSE all

\* an iteration_readings that replaces a voicable reading by its voiced variant
iteration_readings_voiced_only(self, previous_reading) ==
    IF previous_reading = <<>> THEN {}
    ELSE IF previous_reading[1] \in DOMAIN mapping
         THEN {<<mapping[previous_reading[1]]>> \o Tail(previous_reading)}
         ELSE {previous_reading}

iteration_readings(self, previous_reading) ==
    IF previous_reading = <<>> THEN {}
    ELSE LET first == previous_reading[1]
             rest == Tail(previous_reading)
         IN  {previous_reading} \cup
             (IF first \in DOMAIN mapping THEN {<<mapping[first]>> \o rest} ELSE {})

\* a candidates_list that treats the iteration mark like any other character
RECURSIVE candidates_list_no_iteration(_, _, _, _)
candidates_list_no_iteration(self, block, block_reading, n) ==
    IF n = 0 THEN <<>>
    ELSE Append(candidates_list_no_iteration(self, block, block_reading, n - 1),
                sorted(_get_candidate_readings(self, <<block[n]>>) \cup
                       (IF Len(block) = 1 THEN {block_reading} ELSE {})))

\* a candidates_list in which a leading iteration mark is its own sole candidate
RECURSIVE candidates_list_leading_mark_itself(_, _, _, _)
candidates_list_leading_mark_itself(self, block, block_reading, n) ==
    IF n = 0 THEN <<>>
    ELSE LET done == candidates_list_leading_mark_itself(self, block, block_reading, n - 1)
             ch == block[n]
             i == n - 1
             candidates ==
                 IF ch = ITERATION_MARK
                 THEN IF i = 0
                      THEN << <<ch>> >>
                      ELSE LET prev_candidates == done[i]
                               cand == UNION {iteration_readings(self, prev_candidates[p]) :
                                                 p \in 1..Len(prev_candidates)}
                           IN  list_of_set(self.hashseed, cand)
                 ELSE sorted(_get_candidate_readings(self, <<ch>>) \cup
                             (IF Len(block) = 1 THEN {block_reading} ELSE {}))
         IN  Append(done, candidates)

\* a candidates_list that does not add block_reading for a single-character
\* block
RECURSIVE candidates_list_without_slice(_, _, _, _)
candidates_list_without_slice(self, block, block_reading, n) ==
    IF n = 0 THEN <<>>
    ELSE LET done == candidates_list_without_slice(self, block, block_reading, n - 1)
             ch == block[n]
             i == n - 1
             candidates ==
                 IF ch = ITERATION_MARK
                 THEN IF i = 0
                      THEN list_of_set(self.hashseed,
                                       _get_candidate_readings(self, <<ch>>))
                      ELSE LET prev_candidates == done[i]
                               cand == UNION {iteration_readings(self, prev_candidates[p]) :
                                                 p \in 1..Len(prev_candidates)}
                           IN  list_of_set(self.hashseed, cand)
                 ELSE sorted(_get_candidate_readings(self, <<ch>>))
         IN  Append(done, candidates)

\* lines 202-222: the per-character candidate lists of a block, built left
\* to right; n is the number of characters already processed.
RECURSIVE candidates_list(_, _, _, _)
candidates_list(self, block, block_reading, n) ==
    IF n = 0 THEN <<>>
    ELSE LET done == candidates_list(self, block, block_reading, n - 1)
             ch == block[n]
             i == n - 1
             candidates ==
                 IF ch = ITERATION_MARK
                 THEN IF i = 0
                      THEN list_of_set(self.hashseed,
                                       _get_candidate_readings(self, <<ch>>))
                      ELSE LET prev_candidates == done[i]
                               cand == UNION {iteration_readings(self, prev_candidates[p]) :
                                                 p \in 1..Len(prev_candidates)}
                           IN  list_of_set(self.hashseed, cand)
                 ELSE sorted(_get_candidate_readings(self, <<ch>>) \cup
                             (IF Len(block) = 1 THEN {block_reading} ELSE {}))
         IN  Append(done, candidates)

\* f"<ruby>{ch}<rt>{r}</rt></ruby><span class='kanji-space'></span>"
ruby_char(ch, r) == <<RUBY_OPEN, ch, RT_OPEN>> \o r \o <<RUBY_CLOSE, KANJI_SPACE>>

\* f"<ruby>{text}<rt>{reading}</rt></ruby>"
ruby_whole(text, reading) == <<RUBY_OPEN>> \o text \o <<RT_OPEN>> \o reading \o <<RUBY_CLOSE>>

\* an annotated_block that puts the spacer only between two annotated
\* characters, not after the last one
annotated_block_spacers_between(block, readings) ==
    LET n == Min(Len(block), Len(readings))
    IN  join([i \in 1..n |->
                <<RUBY_OPEN, block[i], RT_OPEN>> \o readings[i] \o <<RUBY_CLOSE>>
                    \o (IF i < n THEN <<KANJI_SPACE>> ELSE <<>>)])

\* "".join(ruby for ch, r in zip(block, readings))
annotated_block(block, readings) ==
    join([i \in 1..Min(Len(block), Len(readings)) |-> ruby_char(block[i], readings[i])])

RECURSIVE _generate_splits(_, _)
_generate_splits(reading, n) ==
    IF n = 1 THEN << <<reading>> >>
    ELSE LET for_i(i) ==
                 LET rests == _generate_splits(Slice(reading, i, Len(reading)), n - 1)
                 IN  [r \in 1..Len(rests) |-> <<Slice(reading, 0, i)>> \o rests[r]]
         IN  join([i \in 1..(Len(reading) - n + 1) |-> for_i(i)])

\* a filter that accepts every split
valid_splits_accepts_all(self, block, splits) ==
    SelectSeq(splits, LAMBDA split : TRUE)

\* lines 244-255: the splits every part of which is a candidate of its character
valid_splits(self, block, splits) ==
    SelectSeq(splits,
              LAMBDA split : \A i \in 1..Len(split) :
                  split[i] \in _get_candidate_readings(self, <<block[i]>>))

\* cost of line 263 scaled by len(block): sum |len(seg)*len(block) - len(reading)|
\* (an integer; the 1e-6 tolerances of lines 266 and 269 then separate equal
\* from different costs exactly)
RECURSIVE split_cost(_, _, _)
split_cost(split, nblock, nreading) ==
    IF split = <<>> THEN 0
    ELSE LET d == Len(Head(split)) * nblock - nreading
         IN  (IF d < 0 THEN -d ELSE d) + split_cost(Tail(split), nblock, nreading)

split_lengths(split) == [i \in 1..Len(split) |-> Len(split[i])]

\* a scan that keeps the first split of minimum cost (no tie-break)
RECURSIVE best_split_first_minimum(_, _, _, _, _)
best_split_first_minimum(valid, k, best, nblock, nreading) ==
    IF k > Len(valid) THEN best
    ELSE LET split == valid[k]
             next == IF split_cost(split, nblock, nreading)
                        < split_cost(best, nblock, nreading)
                     THEN split ELSE best
         IN  best_split_first_minimum(valid, k + 1, next, nblock, nreading)

\* lines 258-271: scan of valid_splits from position k with the best split so
\* far; the first split always replaces best_split = None (its cost is below
\* best_cost = inf), so the scan starts with best = valid_splits[0].
RECURSIVE best_split(_, _, _, _, _)
best_split(valid, k, best, nblock, nreading) ==
    IF k > Len(valid) THEN best
    ELSE LET split == valid[k]
             cost == split_cost(split, nblock, nreading)
             best_cost == split_cost(best, nblock, nreading)
             next == IF cost < best_cost THEN split
                     ELSE IF cost = best_cost
                             /\ TupleGreater(split_lengths(split), split_lengths(best))
                          THEN split
                     ELSE best
         IN  best_split(valid, k + 1, next, nblock, nreading)

\* a matching that accepts a combination whose concatenation is only a prefix
\* of block_reading
matching_combos_prefix(self, block, block_reading) ==
    SelectSeq(product(candidates_list(self, block, block_reading, Len(block))),
              LAMBDA combo : join(combo) = Slice(block_reading, 0, Len(join(combo))))

matching_combos(self, block, block_reading) ==
    SelectSeq(product(candidates_list(self, block, block_reading, Len(block))),
              LAMBDA combo : join(combo) = block_reading)

\* an _annotate_kanji_block that returns None when neither path finds a reading
_annotate_kanji_block_reports_failure(self, block, block_reading) ==
    LET matching == matching_combos(self, block, block_reading)
    IN  IF matching # <<>>
        THEN annotated_block(block, matching[1])
        ELSE LET splits == _generate_splits(block_reading, Len(block))
                 valid == valid_splits(self, block, splits)
             IN  IF valid # <<>>
                 THEN annotated_block(block,
                          best_split(valid, 2, valid[1], Len(block), Len(block_reading)))
                 ELSE None

_annotate_kanji_block(self, block, block_reading) ==
    LET matching == matching_combos(self, block, block_reading)
    IN  IF matching # <<>>
        THEN annotated_block(block, matching[1])
        ELSE LET splits == _generate_splits(block_reading, Len(block))
                 valid == valid_splits(self, block, splits)
             IN  IF valid # <<>>
                 THEN annotated_block(block,
                          best_split(valid, 2, valid[1], Len(block), Len(block_reading)))
                 ELSE ruby_whole(block, block_reading)

\* a _split_surface that starts a new segment at every character
_split_surface_per_character(surface) ==
    [i \in 1..Len(surface) |->
        <<IF contains_kanji(<<surface[i]>>) THEN "K" ELSE "L", <<surface[i]>> >>]

\* segments are pairs <<typ, text>> with typ "L" or "K"
RECURSIVE _split_surface(_)
_split_surface(surface) ==
    IF surface = <<>> THEN <<>>
    ELSE LET kanji == contains_kanji(<<surface[1]>>)
             \* length of the maximal run of the first character's class
             run == CHOOSE n \in 1..Len(surface) :
                        /\ \A j \in 1..n : contains_kanji(<<surface[j]>>) = kanji
                        /\ n = Len(surface) \/ contains_kanji(<<surface[n + 1]>>) # kanji
         IN  << <<IF kanji THEN "K" ELSE "L", SubSeq(surface, 1, run)>> >>
             \o _split_surface(Slice(surface, run, Len(surface)))

\* a literal check that compares only the first character and the length
literal_matches_first_char(seg, reading, read_idx) ==
    LET seg_norm == _katakana_to_hiragana(seg)
        literal_segment == Slice(reading, read_idx, read_idx + Len(seg))
        literal_segment_norm == _katakana_to_hiragana(literal_segment)
    IN  /\ Len(literal_segment_norm) = Len(seg_norm)
        /\ seg_norm = <<>> \/ literal_segment_norm[1] = seg_norm[1]

\* lines 359-362: the literal segment against the next len(seg) characters of
\* the reading, both normalised to hiragana
literal_matches(seg, reading, read_idx) ==
    LET seg_norm == _katakana_to_hiragana(seg)
        literal_segment == Slice(reading, read_idx, read_idx + Len(seg))
        literal_segment_norm == _katakana_to_hiragana(literal_segment)
    IN  literal_segment_norm = seg_norm

\* _align_segments returns [ret, memo]: the Python return value and the memo
\* dict as the call leaves it (the dict is shared by reference down the
\* recursion).  memo maps <<seg_idx, read_idx>> to markup or None.
RECURSIVE _align_segments(_, _, _, _, _, _)
RECURSIVE align_kanji_loop(_, _, _, _, _, _, _)
RECURSIVE align_kanji_loop_requires_block_match(_, _, _, _, _, _, _)
RECURSIVE align_kanji_loop_known_readings_only(_, _, _, _, _, _, _)
RECURSIVE _align_segments_ignores_leftover(_, _, _, _, _, _)
\* a loop over L that skips a length for which the block has neither an exact
\* combination nor a valid partition
align_kanji_loop_requires_block_match(self, segments, reading, seg_idx, read_idx, L, memo) ==
    LET key == <<seg_idx, read_idx>>
        seg == segments[seg_idx + 1][2]
        k == Len(seg)
    IN  IF L < k THEN [ret |-> None, memo |-> (key :> None) @@ memo]
        ELSE LET block_reading == Slice(reading, read_idx, read_idx + L)
                 annotated == _annotate_kanji_block(self, seg, block_reading)
                 matched ==
                     \/ matching_combos(self, seg, block_reading) # <<>>
                     \/ valid_splits(self, seg, _generate_splits(block_reading, k)) # <<>>
                 rest == _align_segments(self, segments, reading,
                                         seg_idx + 1, read_idx + L, memo)
             IN  IF matched /\ rest.ret # None
                 THEN [ret |-> annotated \o rest.ret,
                       memo |-> (key :> (annotated \o rest.ret)) @@ rest.memo]
                 ELSE align_kanji_loop_requires_block_match(
                          self, segments, reading, seg_idx, read_idx, L - 1, rest.memo)

\* a loop over L that skips a length for which no combination of candidate
\* readings equals the slice
align_kanji_loop_known_readings_only(self, segments, reading, seg_idx, read_idx, L, memo) ==
    LET key == <<seg_idx, read_idx>>
        seg == segments[seg_idx + 1][2]
        k == Len(seg)
    IN  IF L < k THEN [ret |-> None, memo |-> (key :> None) @@ memo]
        ELSE LET block_reading == Slice(reading, read_idx, read_idx + L)
                 annotated == _annotate_kanji_block(self, seg, block_reading)
                 rest == _align_segments(self, segments, reading,
                                         seg_idx + 1, read_idx + L, memo)
             IN  IF matching_combos(self, seg, block_reading) # <<>> /\ rest.ret # None
                 THEN [ret |-> annotated \o rest.ret,
                       memo |-> (key :> (annotated \o rest.ret)) @@ rest.memo]
                 ELSE align_kanji_loop_known_readings_only(
                          self, segments, reading, seg_idx, read_idx, L - 1, rest.memo)

\* an _align_segments that succeeds at the end of the segments whatever is
\* left of the reading
_align_segments_ignores_leftover(self, segments, reading, seg_idx, read_idx, memo) ==
    LET key == <<seg_idx, read_idx>>
    IN  IF key \in DOMAIN memo THEN [ret |-> memo[key], memo |-> memo]
        ELSE IF seg_idx = Len(segments)
        THEN [ret |-> <<>>, memo |-> memo]
        ELSE LET typ == segments[seg_idx + 1][1]
                 seg == segments[seg_idx + 1][2]
             IN  IF typ = "L"
                 THEN IF literal_matches(seg, reading, read_idx)
                      THEN LET rest == _align_segments(self, segments, reading,
                                           seg_idx + 1, read_idx + Len(seg), memo)
                           IN  IF rest.ret # None
                               THEN [ret |-> seg \o rest.ret,
                                     memo |-> (key :> (seg \o rest.ret)) @@ rest.memo]
                               ELSE [ret |-> None,
                                     memo |-> (key :> None) @@ rest.memo]
                      ELSE [ret |-> None, memo |-> (key :> None) @@ memo]
                 ELSE align_kanji_loop(self, segments, reading, seg_idx, read_idx,
                                       Len(reading) - read_idx, memo)

_align_segments(self, segments, reading, seg_idx, read_idx, memo) ==
    LET key == <<seg_idx, read_idx>>
    IN  IF key \in DOMAIN memo THEN [ret |-> memo[key], memo |-> memo]
        ELSE IF seg_idx = Len(segments) /\ read_idx = Len(reading)
        THEN [ret |-> <<>>, memo |-> memo]
        ELSE IF seg_idx = Len(segments)
        THEN [ret |-> None, memo |-> memo]
        ELSE LET typ == segments[seg_idx + 1][1]
                 seg == segments[seg_idx + 1][2]
             IN  IF typ = "L"
                 THEN IF literal_matches(seg, reading, read_idx)
                      THEN LET rest == _align_segments(self, segments, reading,
                                           seg_idx + 1, read_idx + Len(seg), memo)
                           IN  IF rest.ret # None
                               THEN [ret |-> seg \o rest.ret,
                                     memo |-> (key :> (seg \o rest.ret)) @@ rest.memo]
                               ELSE [ret |-> None,
                                     memo |-> (key :> None) @@ rest.memo]
                      ELSE [ret |-> None, memo |-> (key :> None) @@ memo]
                 ELSE align_kanji_loop(self, segments, reading, seg_idx, read_idx,
                                       Len(reading) - read_idx, memo)

\* lines 377-391: for L in range(max_possible, k - 1, -1), entered at L
align_kanji_loop(self, segments, reading, seg_idx, read_idx, L, memo) ==
    LET key == <<seg_idx, read_idx>>
        seg == segments[seg_idx + 1][2]
        k == Len(seg)
    IN  IF L < k THEN [ret |-> None, memo |-> (key :> None) @@ memo]
        ELSE LET block_reading == Slice(reading, read_idx, read_idx + L)
                 annotated == _annotate_kanji_block(self, seg, block_reading)
                 rest == _align_segments(self, segments, reading,
                                         seg_idx + 1, read_idx + L, memo)
             IN  IF rest.ret # None
                 THEN [ret |-> annotated \o rest.ret,
                       memo |-> (key :> (annotated \o rest.ret)) @@ rest.memo]
                 ELSE align_kanji_loop(self, segments, reading, seg_idx, read_idx,
                                       L - 1, rest.memo)

\* one step of a run of _align_segments, for the state key = <<seg_idx,
\* read_idx>>: "hit" (lines 348-349, value: what the memo held), "end" (lines
\* 350-353: past the last segment, value: what is returned), "body" (line
\* 356 reached: the state is being worked out), "block" (line 379:
\* _annotate_kanji_block called for the slice of length L) and "store" (a
\* memo[key] = value assignment)
event(op, key, L, value) == [op |-> op, key |-> key, L |-> L, value |-> value]

\* _align_segments and its loop over L once more, returning [ret, memo, log]:
\* the return value, the memo dict and the steps the call took, in order
RECURSIVE _align_segments_traced(_, _, _, _, _, _)
RECURSIVE align_kanji_loop_traced(_, _, _, _, _, _, _)
RECURSIVE _align_segments_traced_forgets_failure(_, _, _, _, _, _)
RECURSIVE _align_segments_traced_by_segment(_, _, _, _, _, _)
RECURSIVE align_kanji_loop_traced_down_to_zero(_, _, _, _, _, _, _)
\* a traced loop over L that goes on below len(seg), down to 0
align_kanji_loop_traced_down_to_zero(self, segments, reading, seg_idx, read_idx, L, memo) ==
    LET key == <<seg_idx, read_idx>>
        seg == segments[seg_idx + 1][2]
    IN  IF L < 0 THEN [ret |-> None, memo |-> (key :> None) @@ memo,
                       log |-> <<event("store", key, 0, None)>>]
        ELSE LET block_reading == Slice(reading, read_idx, read_idx + L)
                 annotated == _annotate_kanji_block(self, seg, block_reading)
                 rest == _align_segments_traced(self, segments, reading,
                                                seg_idx + 1, read_idx + L, memo)
                 next == align_kanji_loop_traced_down_to_zero(
                             self, segments, reading, seg_idx, read_idx, L - 1, rest.memo)
                 tried == <<event("block", key, L, annotated)>> \o rest.log
             IN  IF rest.ret # None
                 THEN [ret |-> annotated \o rest.ret,
                       memo |-> (key :> (annotated \o rest.ret)) @@ rest.memo,
                       log |-> tried \o <<event("store", key, 0, annotated \o rest.ret)>>]
                 ELSE [ret |-> next.ret, memo |-> next.memo, log |-> tried \o next.log]

\* a traced _align_segments whose literal branch stores successes only
_align_segments_traced_forgets_failure(self, segments, reading, seg_idx, read_idx, memo) ==
    LET key == <<seg_idx, read_idx>>
    IN  IF key \in DOMAIN memo
        THEN [ret |-> memo[key], memo |-> memo,
              log |-> <<event("hit", key, 0, memo[key])>>]
        ELSE IF seg_idx = Len(segments) /\ read_idx = Len(reading)
        THEN [ret |-> <<>>, memo |-> memo, log |-> <<event("end", key, 0, <<>>)>>]
        ELSE IF seg_idx = Len(segments)
        THEN [ret |-> None, memo |-> memo, log |-> <<event("end", key, 0, None)>>]
        ELSE LET typ == segments[seg_idx + 1][1]
                 seg == segments[seg_idx + 1][2]
                 body == <<event("body", key, 0, None)>>
             IN  IF typ = "L"
                 THEN IF literal_matches(seg, reading, read_idx)
                      THEN LET rest == _align_segments_traced(self, segments, reading,
                                           seg_idx + 1, read_idx + Len(seg), memo)
                           IN  IF rest.ret # None
                               THEN [ret |-> seg \o rest.ret,
                                     memo |-> (key :> (seg \o rest.ret)) @@ rest.memo,
                                     log |-> body \o rest.log
                                         \o <<event("store", key, 0, seg \o rest.ret)>>]
                               ELSE [ret |-> None, memo |-> rest.memo,
                                     log |-> body \o rest.log]
                      ELSE [ret |-> None, memo |-> memo, log |-> body]
                 ELSE LET loop == align_kanji_loop_traced(self, segments, reading, seg_idx,
                                      read_idx, Len(reading) - read_idx, memo)
                      IN  [ret |-> loop.ret, memo |-> loop.memo, log |-> body \o loop.log]

\* a traced _align_segments whose memo key leaves the reading offset out
_align_segments_traced_by_segment(self, segments, reading, seg_idx, read_idx, memo) ==
    LET key == <<seg_idx, 0>>
    IN  IF key \in DOMAIN memo
        THEN [ret |-> memo[key], memo |-> memo,
              log |-> <<event("hit", key, 0, memo[key])>>]
        ELSE IF seg_idx = Len(segments) /\ read_idx = Len(reading)
        THEN [ret |-> <<>>, memo |-> memo, log |-> <<event("end", key, 0, <<>>)>>]
        ELSE IF seg_idx = Len(segments)
        THEN [ret |-> None, memo |-> memo, log |-> <<event("end", key, 0, None)>>]
        ELSE LET typ == segments[seg_idx + 1][1]
                 seg == segments[seg_idx + 1][2]
                 body == <<event("body", key, 0, None)>>
             IN  IF typ = "L"
                 THEN IF literal_matches(seg, reading, read_idx)
                      THEN LET rest == _align_segments_traced(self, segments, reading,
                                           seg_idx + 1, read_idx + Len(seg), memo)
                           IN  IF rest.ret # None
                               THEN [ret |-> seg \o rest.ret,
                                     memo |-> (key :> (seg \o rest.ret)) @@ rest.memo,
                                     log |-> body \o rest.log
                                         \o <<event("store", key, 0, seg \o rest.ret)>>]
                               ELSE [ret |-> None,
                                     memo |-> (key :> None) @@ rest.memo,
                                     log |-> body \o rest.log
                                         \o <<event("store", key, 0, None)>>]
                      ELSE [ret |-> None, memo |-> (key :> None) @@ memo,
                            log |-> body \o <<event("store", key, 0, None)>>]
                 ELSE LET loop == align_kanji_loop_traced(self, segments, reading, seg_idx,
                                      read_idx, Len(reading) - read_idx, memo)
                      IN  [ret |-> loop.ret, memo |-> loop.memo, log |-> body \o loop.log]

\* lines 345-375
_align_segments_traced(self, segments, reading, seg_idx, read_idx, memo) ==
    LET key == <<seg_idx, read_idx>>
    IN  IF key \in DOMAIN memo
        THEN [ret |-> memo[key], memo |-> memo,
              log |-> <<event("hit", key, 0, memo[key])>>]
        ELSE IF seg_idx = Len(segments) /\ read_idx = Len(reading)
        THEN [ret |-> <<>>, memo |-> memo, log |-> <<event("end", key, 0, <<>>)>>]
        ELSE IF seg_idx = Len(segments)
        THEN [ret |-> None, memo |-> memo, log |-> <<event("end", key, 0, None)>>]
        ELSE LET typ == segments[seg_idx + 1][1]
                 seg == segments[seg_idx + 1][2]
                 body == <<event("body", key, 0, None)>>
             IN  IF typ = "L"
                 THEN IF literal_matches(seg, reading, read_idx)
                      THEN LET rest == _align_segments_traced(self, segments, reading,
                                           seg_idx + 1, read_idx + Len(seg), memo)
                           IN  IF rest.ret # None
                               THEN [ret |-> seg \o rest.ret,
                                     memo |-> (key :> (seg \o rest.ret)) @@ rest.memo,
                                     log |-> body \o rest.log
                                         \o <<event("store", key, 0, seg \o rest.ret)>>]
                               ELSE [ret |-> None,
                                     memo |-> (key :> None) @@ rest.memo,
                                     log |-> body \o rest.log
                                         \o <<event("store", key, 0, None)>>]
                      ELSE [ret |-> None, memo |-> (key :> None) @@ memo,
                            log |-> body \o <<event("store", key, 0, None)>>]
                 ELSE LET loop == align_kanji_loop_traced(self, segments, reading, seg_idx,
                                      read_idx, Len(reading) - read_idx, memo)
                      IN  [ret |-> loop.ret, memo |-> loop.memo, log |-> body \o loop.log]

\* lines 377-391: for L in range(max_possible, k - 1, -1), entered at L
align_kanji_loop_traced(self, segments, reading, seg_idx, read_idx, L, memo) ==
    LET key == <<seg_idx, read_idx>>
        seg == segments[seg_idx + 1][2]
        k == Len(seg)
    IN  IF L < k THEN [ret |-> None, memo |-> (key :> None) @@ memo,
                       log |-> <<event("store", key, 0, None)>>]
        ELSE LET block_reading == Slice(reading, read_idx, read_idx + L)
                 annotated == _annotate_kanji_block(self, seg, block_reading)
                 rest == _align_segments_traced(self, segments, reading,
                                         seg_idx + 1, read_idx + L, memo)
                 next == align_kanji_loop_traced(self, segments, reading, seg_idx, read_idx,
                                          L - 1, rest.memo)
                 tried == <<event("block", key, L, annotated)>> \o rest.log
             IN  IF rest.ret # None
                 THEN [ret |-> annotated \o rest.ret,
                       memo |-> (key :> (annotated \o rest.ret)) @@ rest.memo,
                       log |-> tried \o <<event("store", key, 0, annotated \o rest.ret)>>]
                 ELSE [ret |-> next.ret, memo |-> next.memo, log |-> tried \o next.log]

WARNING == "Warnung: Kein vollstaendiges Alignment gefunden"

\* an _annotate_word that wraps the whole surface when no alignment is found
_annotate_word_wraps_on_failure(self, surface, full_reading) ==
    LET segments == _split_surface(surface)
        result == _align_segments(self, segments, full_reading, 0, 0, <<>>).ret
    IN  IF result = None
        THEN [ret |-> ruby_whole(surface, full_reading), out |-> <<WARNING>>,
              result |-> result]
        ELSE [ret |-> result, out |-> <<>>, result |-> result]

\* returns [ret, out, result]: the returned str, the non-DEBUG lines printed
\* and the local result of line 407 (what _align_segments returned)
_annotate_word(self, surface, full_reading) ==
    LET segments == _split_surface(surface)
        result == _align_segments(self, segments, full_reading, 0, 0, <<>>).ret
    IN  IF result = None
        THEN [ret |-> surface, out |-> <<WARNING>>, result |-> result]
        ELSE [ret |-> result, out |-> <<>>, result |-> result]

\* a debug flag that, once set by a call, stays set for the later calls
debug_for_sticky(self, word) ==
    self.debug_mode \/ self.global_debug
        \/ (self.debug_words # {} /\ word \in self.debug_words)

\* line 427: the value generate_furigana_word assigns to self.debug_mode
debug_for(self, word) ==
    self.global_debug \/ (self.debug_words # {} /\ word \in self.debug_words)

\* a generate_furigana_word without the slash test of lines 437-438
generate_furigana_word_no_slash_test(self, word, target_reading) ==
    LET self1 == [self EXCEPT !.debug_mode = debug_for(self, word)]
    IN  IF ~contains_kanji(word)
        THEN [ret |-> word, out |-> <<>>, path |-> 434, result |-> None]
        ELSE IF target_reading # None /\ target_reading # <<>>
        THEN LET r == _annotate_word(self1, word, target_reading)
             IN  [ret |-> r.ret, out |-> r.out, path |-> 439, result |-> r.result]
        ELSE LET readings == IF word \in DOMAIN self.word_dict
                             THEN self.word_dict[word]
                             ELSE <<>>
             IN  IF Len(readings) = 1
                 THEN [ret |-> ruby_whole(word, readings[1]), out |-> <<>>, path |-> 443,
                       result |-> None]
                 ELSE [ret |-> word, out |-> <<>>, path |-> 444, result |-> None]

\* a generate_furigana_word that takes the first recorded reading whenever
\* there is one (len(readings) >= 1)
generate_furigana_word_first_reading(self, word, target_reading) ==
    LET self1 == [self EXCEPT !.debug_mode = debug_for(self, word)]
    IN  IF ~contains_kanji(word)
        THEN [ret |-> word, out |-> <<>>, path |-> 434, result |-> None]
        ELSE IF target_reading # None /\ target_reading # <<>>
        THEN IF SLASH \in Range(target_reading)
             THEN [ret |-> word, out |-> <<>>, path |-> 438, result |-> None]
             ELSE LET r == _annotate_word(self1, word, target_reading)
                  IN  [ret |-> r.ret, out |-> r.out, path |-> 439, result |-> r.result]
        ELSE LET readings == IF word \in DOMAIN self.word_dict
                             THEN self.word_dict[word]
                             ELSE <<>>
             IN  IF Len(readings) >= 1
                 THEN [ret |-> ruby_whole(word, readings[1]), out |-> <<>>, path |-> 443,
                       result |-> None]
                 ELSE [ret |-> word, out |-> <<>>, path |-> 444, result |-> None]

\* returns [ret, out, path, result]: the returned str, the non-DEBUG lines
\* printed, the return statement taken (by source line: 434, 438, 439, 443,
\* 444) and what _align_segments returned when it was called (else None)
generate_furigana_word(self, word, target_reading) ==
    LET self1 == [self EXCEPT !.debug_mode = debug_for(self, word)]
    IN  IF ~contains_kanji(word)
        THEN [ret |-> word, out |-> <<>>, path |-> 434, result |-> None]
        ELSE IF target_reading # None /\ target_reading # <<>>
        THEN IF SLASH \in Range(target_reading)
             THEN [ret |-> word, out |-> <<>>, path |-> 438, result |-> None]
             ELSE LET r == _annotate_word(self1, word, target_reading)
                  IN  [ret |-> r.ret, out |-> r.out, path |-> 439, result |-> r.result]
        ELSE LET readings == IF word \in DOMAIN self.word_dict
                             THEN self.word_dict[word]
                             ELSE <<>>
             IN  IF Len(readings) = 1
                 THEN [ret |-> ruby_whole(word, readings[1]), out |-> <<>>, path |-> 443,
                       result |-> None]
                 ELSE [ret |-> word, out |-> <<>>, path |-> 444, result |-> None]

(* ------------------------------ resources ------------------------------ *)
KanjiTexts == {<<DAI>>, <<ITERATION_MARK>>}

\* the tokenizer's answer for a one-character text: the reading forms of its
\* tokens (katakana).  A token may carry an empty reading form.
TokenizerChoices ==
    { (<<DAI>> :> << <<KATAKANA_KA>> >>) @@ (<<ITERATION_MARK>> :> << <<>> >>),
      (<<DAI>> :> << <<>> >>) @@ (<<ITERATION_MARK>> :> <<>>),
      (<<DAI>> :> << <<KATAKANA_KA, KATAKANA_KA>> >>) @@ (<<ITERATION_MARK>> :> <<>>) }

JmdictEntries ==
    << [k_ele |-> << <<DAI>> >>, r_ele |-> << <<GA>>, <<GA, KA>> >>],
       [k_ele |-> << <<ITERATION_MARK>> >>, r_ele |-> << <<KA>>, <<KA, KA>> >>],
       [k_ele |-> << None, <<DAI, ITERATION_MARK>> >>, r_ele |-> << <<GA, GA>> >>],
       [k_ele |-> << <<DAI, KATAKANA_KA>> >>, r_ele |-> <<>>] >>

JmdictFiles ==
    { [exists |-> FALSE, entries |-> <<>>],
      [exists |-> TRUE, entries |-> JmdictEntries] }

\* the constructor's (global_debug, debug_words) arguments
DebugChoices ==
    { [global_debug |-> FALSE, debug_words |-> {}],
      [global_debug |-> TRUE, debug_words |-> {}],
      [global_debug |-> FALSE, debug_words |-> {<<DAI, ITERATION_MARK>>}] }

HashSeeds == 0..MaxHashSeed

\* the arguments _align_segments passes to _annotate_kanji_block: a maximal
\* kanji run and a slice of the reading at least as long as the run
Blocks == StringsOver({DAI, ITERATION_MARK}, MaxSurfaceLen) \ {<<>>}
BlockReadings(block) == {r \in KanaReadings : Len(r) >= Len(block)}

(* ------------------------------ state ---------------------------------- *)
VARIABLES
    furigana_generator,   \* the FuriganaGenerator instance (its attributes)
    load_stdout,          \* the lines the constructor printed
    pc,                   \* the caller: "idle", or "returned" from a call
    word_str,             \* the caller's arguments of the call in progress
    reading_str,
    furigana_expression,  \* the str the call returned
    return_line,          \* the return statement the call took (0: none yet)
    align_result,         \* what _align_segments returned to _annotate_word
    stdout,               \* the non-DEBUG lines the call printed
    block_call,           \* a direct call of _annotate_kanji_block: arguments,
                          \* candidates_list, matching, return value
    split_call,           \* a direct run of the best-split scan (lines 258-271):
                          \* valid_splits, block_reading, len(block), best_split
    align_call,           \* a direct top-level call of _align_segments (line
                          \* 407): segments, reading, return value, steps taken
    nested_data,          \* VocabDeckGenerator.nested_data: the loaded items
    audio_dir,            \* the audio files that exist next to the YAML file
    deck_pc,              \* create_deck_for_language: "idle", "loop", "written"
    lang_code,            \* its argument
    item_index,           \* position of `for item in self.nested_data`
    reading_index,        \* position of `for reading_data in readings`
    deck_notes,           \* deck.notes
    media_files,          \* package.media_files
    deck_stdout,          \* the lines create_deck_for_language printed
    output_files          \* the .apkg files written, by language code

deck_vars == <<nested_data, audio_dir, deck_pc, lang_code, item_index,
               reading_index, deck_notes, media_files, deck_stdout, output_files>>

vars == <<furigana_generator, load_stdout, pc, word_str, reading_str,
          furigana_expression, return_line, align_result, stdout, block_call,
          split_call, align_call, deck_vars>>

no_block_call ==
    [block |-> <<>>, block_reading |-> <<>>, candidates_list |-> <<>>,
     matching |-> <<>>, ret |-> None]

no_split_call ==
    [valid_splits |-> <<>>, block_reading |-> <<>>, nblock |-> 0, best_split |-> None]

no_align_call ==
    [segments |-> <<>>, reading |-> <<>>, ret |-> None, log |-> <<>>]

\* FuriganaGenerator.__init__
__init__(tokenizer, file, seed, global_debug, debug_words) ==
    [ tokenizer_obj |-> tokenizer,
      cache |-> <<>>,
      word_dict |-> load_jmdict(file).word_dict,
      global_debug |-> global_debug,
      debug_words |-> debug_words,
      debug_mode |-> FALSE,
      hashseed |-> seed ]

\* no VocabDeckGenerator: nothing loaded, no deck under construction
no_deck ==
    /\ nested_data = <<>>
    /\ audio_dir = {}
    /\ deck_pc = "idle"
    /\ lang_code = ""
    /\ item_index = 0
    /\ reading_index = 0
    /\ deck_notes = <<>>
    /\ media_files = <<>>
    /\ deck_stdout = <<>>
    /\ output_files = <<>>

Init ==
    \E tokenizer \in TokenizerChoices, file \in JmdictFiles, seed \in HashSeeds,
       debug \in DebugChoices :
        /\ furigana_generator =
              __init__(tokenizer, file, seed, debug.global_debug, debug.debug_words)
        /\ load_stdout = load_jmdict(file).out
        /\ pc = "idle"
        /\ word_str = <<>>
        /\ reading_str = None
        /\ furigana_expression = None
        /\ return_line = 0
        /\ align_result = None
        /\ stdout = <<>>
        /\ block_call = no_block_call
        /\ split_call = no_split_call
        /\ align_call = no_align_call
        /\ no_deck

\* one whole call furigana_generator.generate_furigana_word(word, target_reading)
Call_generate_furigana_word(word, target_reading) ==
    /\ pc = "idle"
    /\ \E r \in {generate_furigana_word(furigana_generator, word, target_reading)} :
           /\ furigana_generator' =
                 [furigana_generator EXCEPT
                     !.debug_mode = debug_for(furigana_generator, word)]
           /\ furigana_expression' = r.ret
           /\ stdout' = r.out
           /\ return_line' = r.path
           /\ align_result' = r.result
    /\ word_str' = word
    /\ reading_str' = target_reading
    /\ pc' = "returned"
    /\ UNCHANGED <<load_stdout, block_call, split_call, align_call, deck_vars>>

\* the caller is done with the returned value; its locals go out of scope
Caller_continue ==
    /\ pc = "returned"
    /\ pc' = "idle"
    /\ word_str' = <<>>
    /\ reading_str' = None
    /\ furigana_expression' = None
    /\ return_line' = 0
    /\ align_result' = None
    /\ stdout' = <<>>
    /\ block_call' = no_block_call
    /\ split_call' = no_split_call
    /\ align_call' = no_align_call
    /\ UNCHANGED <<furigana_generator, load_stdout, deck_vars>>

Next ==
    \/ /\ pc = "idle"
       /\ \E word \in Surfaces, target_reading \in TargetReadings :
              Call_generate_furigana_word(word, target_reading)
    \/ Caller_continue

Spec == Init /\ [][Next]_vars

\* one whole call furigana_generator._annotate_kanji_block(block, block_reading),
\* as _align_segments makes it (line 379)
Call__annotate_kanji_block(block, block_reading) ==
    /\ pc = "idle"
    /\ block_call' =
          [block |-> block,
           block_reading |-> block_reading,
           candidates_list |->
               candidates_list(furigana_generator, block, block_reading, Len(block)),
           matching |-> matching_combos(furigana_generator, block, block_reading),
           ret |-> _annotate_kanji_block(furigana_generator, block, block_reading)]
    /\ pc' = "returned"
    /\ UNCHANGED <<furigana_generator, load_stdout, word_str, reading_str,
                   furigana_expression, return_line, align_result, stdout,
                   split_call, align_call, deck_vars>>

NextBlock ==
    \/ /\ pc = "idle"
       /\ \E block \in Blocks :
              \E block_reading \in BlockReadings(block) :
                  Call__annotate_kanji_block(block, block_reading)
    \/ Caller_continue

SpecBlock == Init /\ [][NextBlock]_vars

\* the engine as VocabDeckGenerator.__init__ constructs it (line 703):
\* global_debug=False, debug_words=None
InitDeck ==
    \E tokenizer \in TokenizerChoices, file \in JmdictFiles, seed \in HashSeeds :
        /\ furigana_generator = __init__(tokenizer, file, seed, FALSE, {})
        /\ load_stdout = load_jmdict(file).out
        /\ pc = "idle"
        /\ word_str = <<>>
        /\ reading_str = None
        /\ furigana_expression = None
        /\ return_line = 0
        /\ align_result = None
        /\ stdout = <<>>
        /\ block_call = no_block_call
        /\ split_call = no_split_call
        /\ align_call = no_align_call
        /\ no_deck

\* the calls that reach _annotate_word (line 439): a surface with kanji and a
\* non-empty target reading without slash
AlignedSurfaces == {w \in Surfaces : contains_kanji(w)}
AlignedReadings == KanaReadings \ {<<>>}

NextAlign ==
    \/ /\ pc = "idle"
       /\ \E word \in AlignedSurfaces, target_reading \in AlignedReadings :
              Call_generate_furigana_word(word, target_reading)
    \/ Caller_continue

SpecAlign == InitDeck /\ [][NextAlign]_vars

(* ------------------------------ memo table ----------------------------- *)
\* a state of _align_segments is visited a second time only when two kanji
\* runs stand before it, so the surfaces are one character longer than
\* elsewhere: kanji and katakana in any order, at least one kanji
MemoSurfaces ==
    {w \in StringsOver({DAI, KATAKANA_KA}, MaxSurfaceLen + 1) : contains_kanji(w)}
MemoReadings == StringsOver({KA, GA}, MaxReadingLen + 1) \ {<<>>}

\* one whole top-level call self._align_segments(segments, full_reading) as
\* _annotate_word makes it (lines 406-407): memo is None
Call__align_segments(surface, full_reading) ==
    /\ pc = "idle"
    /\ \E result \in {_align_segments_traced(furigana_generator,
                           _split_surface(surface), full_reading, 0, 0, <<>>)} :
           align_call' = [segments |-> _split_surface(surface),
                          reading |-> full_reading,
                          ret |-> result.ret,
                          log |-> result.log]
    /\ pc' = "returned"
    /\ UNCHANGED <<furigana_generator, load_stdout, word_str, reading_str,
                   furigana_expression, return_line, align_result, stdout,
                   block_call, split_call, deck_vars>>

NextMemo ==
    \/ /\ pc = "idle"
       /\ \E surface \in MemoSurfaces, full_reading \in MemoReadings :
              Call__align_segments(surface, full_reading)
    \/ /\ pc = "idle"
       /\ \E word \in MemoSurfaces, target_reading \in MemoReadings :
              Call_generate_furigana_word(word, target_reading)
    \/ Caller_continue

SpecMemo == InitDeck /\ [][NextMemo]_vars

(* --------------------------- best-split scan --------------------------- *)
\* the reading slices the scan is applied to (it looks at the lengths of the
\* parts only), and the lists valid_splits can be: splits of the slice into
\* len(block) non-empty parts, without repetition, in any order
SplitReadings == StringsOver({KA}, MaxSplitLen)

SplitLists(reading, n) ==
    LET all == Range(_generate_splits(reading, n))
    IN  {l \in StringsOver(all, MaxValid) :
            l # <<>> /\ \A i, j \in DOMAIN l : i # j => l[i] # l[j]}

\* lines 258-271 applied to a list valid_splits
Call_best_split(reading, n, valid) ==
    /\ pc = "idle"
    /\ split_call' =
          [valid_splits |-> valid, block_reading |-> reading, nblock |-> n,
           best_split |-> best_split(valid, 2, valid[1], n, Len(reading))]
    /\ pc' = "returned"
    /\ UNCHANGED <<furigana_generator, load_stdout, word_str, reading_str,
                   furigana_expression, return_line, align_result, stdout,
                   block_call, align_call, deck_vars>>

NextSplit ==
    \/ /\ pc = "idle"
       /\ \E n \in 2..MaxSurfaceLen :
              \E reading \in {r \in SplitReadings : Len(r) >= n} :
                  \E valid \in SplitLists(reading, n) :
                      Call_best_split(reading, n, valid)
    \/ Caller_continue

SpecSplit == InitDeck /\ [][NextSplit]_vars

(* ----------------------------- deck building --------------------------- *)
SPACE == 32
UNDERSCORE == 95
LangCodes == {"de", "en"}

\* d.get(k, default) of a dict
get(d, k, default) == IF k \in DOMAIN d THEN d[k] ELSE default

\* t.replace(" ", "_") (line 749)
replace_spaces(t) == [i \in DOMAIN t |-> IF t[i] = SPACE THEN UNDERSCORE ELSE t[i]]

\* "\n".join(lines)
RECURSIVE join_lines(_)
join_lines(lines) ==
    IF lines = <<>> THEN ""
    ELSE IF Len(lines) = 1 THEN lines[1]
    ELSE lines[1] \o "\n" \o join_lines(Tail(lines))

\* [x for x in xs if x] of a list of str
RECURSIVE non_empty(_)
non_empty(xs) ==
    IF xs = <<>> THEN <<>>
    ELSE IF xs[1] = "" THEN non_empty(Tail(xs))
    ELSE <<xs[1]>> \o non_empty(Tail(xs))

\* f'[sound:{name}]' if name else ''
sound(name) == IF name = "" THEN "" ELSE "[sound:" \o name \o "]"

\* the YAML documents load_data accepts (a list of items)
Sentence ==
    [sentence |-> "s", sentence_kana |-> "k", sentence_audio |-> "s.mp3",
     translations |-> [en |-> "t"]]

ReadingData ==
    [ plain |-> [reading |-> <<KA>>],
      voiced |-> [reading |-> <<GA>>, expression_audio |-> "dai.mp3",
                  meaning |-> [en |-> "big", de |-> "gross"],
                  sentences |-> <<Sentence>>],
      double |-> [reading |-> <<GA, GA>>, meaning |-> [de |-> "gross"],
                  note |-> [de |-> "n"],
                  sentences |-> <<Sentence, [sentence |-> "s2"]>>],
      ambiguous |-> [reading |-> <<KA, SLASH, GA>>, expression_audio |-> "x.mp3"],
      missing |-> [expression_audio |-> "dai.mp3"] ]

Batches ==
    { <<>>,
      << [word |-> <<DAI, KA>>, tags |-> << <<KA, SPACE, KA>> >>,
          readings |-> <<ReadingData.plain>>],
         [word |-> <<DAI>>,
          readings |-> <<ReadingData.voiced, ReadingData.ambiguous>>] >>,
      << [word |-> <<DAI>>, readings |-> <<>>],
         [word |-> <<KA>>, readings |-> <<ReadingData.plain>>],
         [readings |-> <<ReadingData.missing>>],
         [word |-> <<DAI, KA>>, readings |-> <<ReadingData.missing>>] >>,
      << [word |-> <<DAI, ITERATION_MARK>>,
          readings |-> <<ReadingData.double, ReadingData.plain,
                         ReadingData.ambiguous>>] >> }

AudioDirs == { {}, {"dai.mp3", "s.mp3"} }

\* the engines VocabDeckGenerator.__init__ constructs (line 703) and the
\* (word, reading) pairs of the documents
DeckEngines ==
    {__init__(tokenizer, file, seed, FALSE, {}) :
        tokenizer \in TokenizerChoices, file \in JmdictFiles, seed \in HashSeeds}

DeckWords ==
    UNION {{get(data[i], "word", <<>>) : i \in DOMAIN data} : data \in Batches}

DeckReadings ==
    {get(ReadingData[n], "reading", <<>>) : n \in DOMAIN ReadingData}

\* generate_furigana_word over these arguments, evaluated once
furigana_expressions ==
    [self \in DeckEngines, word \in DeckWords, reading \in DeckReadings |->
        generate_furigana_word(self, word, reading)]

\* NoteFactory.create_notes_for_reading: [notes, out].  A note is its model,
\* its guid (the text genanki.guid_for hashes), its tags and its field values
\* by the names the code gives them; `furigana_call` is what the one call of
\* generate_furigana_word (line 556) returned (ret, out, path, result).
create_notes_for_reading(self, word, reading_data, tags, lang) ==
    LET reading == get(reading_data, "reading", <<>>)
        expression_audio == get(reading_data, "expression_audio", "")
        meaning_for_lang == get(get(reading_data, "meaning", <<>>), lang, "")
        note_for_lang == get(get(reading_data, "note", <<>>), lang, "")
        sentences == get(reading_data, "sentences", <<>>)
        field(name) == [i \in DOMAIN sentences |-> get(sentences[i], name, "")]
        trans == [i \in DOMAIN sentences |->
                     get(get(sentences[i], "translations", <<>>), lang, "")]
        sentence_audio_list == non_empty(field("sentence_audio"))
        final_sentence_audio ==
            IF sentence_audio_list # <<>> THEN sentence_audio_list[1] ELSE ""
        joined_sentence_translation == join_lines(non_empty(trans))
        note(model, furigana) ==
            [ model |-> model,
              guid |-> <<word \o reading, lang \o model>>,
              tags |-> tags,
              word_str |-> word,
              furigana_expression |-> furigana,
              meaning_for_lang |-> meaning_for_lang,
              reading_str |-> reading,
              joined_sentence |-> join_lines(non_empty(field("sentence"))),
              joined_sentence_kana |-> join_lines(non_empty(field("sentence_kana"))),
              joined_sentence_furigana |-> "",
              joined_sentence_translation |-> joined_sentence_translation,
              sentence_sound |-> sound(final_sentence_audio),
              expression_sound |-> sound(expression_audio),
              image |-> "",
              note_for_lang |-> note_for_lang ]
        notes(furigana) ==
            <<note("reading", furigana)>>
            \o (IF expression_audio # ""
                THEN <<note("listening", furigana)>> ELSE <<>>)
            \o (IF meaning_for_lang # "" /\ joined_sentence_translation # ""
                THEN <<note("translation", furigana)>> ELSE <<>>)
    IN  CHOOSE created \in
            { [notes |-> notes(furigana_call.ret), out |-> furigana_call.out] :
                furigana_call \in {furigana_expressions[self, word, reading]} } : TRUE

\* VocabDeckGenerator._add_media_files: [media, out], the paths appended to
\* package.media_files and the warnings printed, in order (the YAML file is
\* data/vocab.yaml)
RECURSIVE add_audio_files(_, _)
add_audio_files(names, existing) ==
    IF names = <<>> THEN [media |-> <<>>, out |-> <<>>]
    ELSE LET rest == add_audio_files(Tail(names), existing)
         IN  IF names[1] \in existing
             THEN [media |-> <<"data/audio/" \o names[1]>> \o rest.media, out |-> rest.out]
             ELSE [media |-> rest.media,
                   out |-> <<"Warning: Audio file not found: data/audio/" \o names[1]>>
                           \o rest.out]

_add_media_files(existing, reading_data) ==
    LET sentences == get(reading_data, "sentences", <<>>)
        names == <<get(reading_data, "expression_audio", "")>>
                 \o [i \in DOMAIN sentences |-> get(sentences[i], "sentence_audio", "")]
    IN  add_audio_files(non_empty(names), existing)

\* VocabDeckGenerator.__init__ (lines 700-703)
InitBatch ==
    \E tokenizer \in TokenizerChoices, file \in JmdictFiles, seed \in HashSeeds,
       data \in Batches, files \in AudioDirs :
        /\ furigana_generator = __init__(tokenizer, file, seed, FALSE, {})
        /\ load_stdout = load_jmdict(file).out
        /\ pc = "idle"
        /\ word_str = <<>>
        /\ reading_str = None
        /\ furigana_expression = None
        /\ return_line = 0
        /\ align_result = None
        /\ stdout = <<>>
        /\ block_call = no_block_call
        /\ split_call = no_split_call
        /\ align_call = no_align_call
        /\ nested_data = data
        /\ audio_dir = files
        /\ deck_pc = "idle"
        /\ lang_code = ""
        /\ item_index = 0
        /\ reading_index = 0
        /\ deck_notes = <<>>
        /\ media_files = <<>>
        /\ deck_stdout = <<>>
        /\ output_files = <<>>

engine_vars == <<load_stdout, pc, word_str, reading_str, furigana_expression,
                 return_line, align_result, stdout, block_call, split_call,
                 align_call>>

\* create_deck_for_language(lang) up to the loop (lines 720-738): a new deck
\* and package
Call_create_deck_for_language(lang) ==
    /\ deck_pc \in {"idle", "written"}
    /\ deck_pc' = "loop"
    /\ lang_code' = lang
    /\ item_index' = 1
    /\ reading_index' = 1
    /\ deck_notes' = <<>>
    /\ media_files' = <<>>
    /\ deck_stdout' = <<>>
    /\ UNCHANGED <<furigana_generator, engine_vars, nested_data, audio_dir,
                   output_files>>

\* the item and the readings the loops are at
item == nested_data[item_index]
readings == get(item, "readings", <<>>)

\* a loop body that gives the batch up when the word was not aligned: the
\* call left by the alignment-failure exit or by the slash exit
Process_reading_aborts_on_failure ==
    /\ deck_pc = "loop"
    /\ item_index <= Len(nested_data)
    /\ reading_index <= Len(readings)
    /\ LET word == get(item, "word", <<>>)
           tags_raw == get(item, "tags", <<>>)
           tags == [i \in DOMAIN tags_raw |-> replace_spaces(tags_raw[i])]
           reading_data == readings[reading_index]
           call == furigana_expressions[furigana_generator, word,
                                        get(reading_data, "reading", <<>>)]
           created == create_notes_for_reading(furigana_generator, word,
                                               reading_data, tags, lang_code)
           added == _add_media_files(audio_dir, reading_data)
       IN  /\ furigana_generator' =
                 [furigana_generator EXCEPT
                     !.debug_mode = debug_for(furigana_generator, word)]
           /\ IF call.path = 438 \/ (call.path = 439 /\ call.result = None)
              THEN /\ deck_pc' = "aborted"
                   /\ UNCHANGED <<deck_notes, media_files, deck_stdout,
                                  reading_index>>
              ELSE /\ deck_notes' = deck_notes \o created.notes
                   /\ media_files' = media_files \o added.media
                   /\ deck_stdout' = deck_stdout \o created.out \o added.out
                   /\ reading_index' = reading_index + 1
                   /\ UNCHANGED deck_pc
    /\ UNCHANGED <<engine_vars, nested_data, audio_dir, lang_code,
                   item_index, output_files>>

\* one pass of the body of `for reading_data in readings` (lines 753-761)
Process_reading ==
    /\ deck_pc = "loop"
    /\ item_index <= Len(nested_data)
    /\ reading_index <= Len(readings)
    /\ LET word == get(item, "word", <<>>)
           tags_raw == get(item, "tags", <<>>)
           tags == [i \in DOMAIN tags_raw |-> replace_spaces(tags_raw[i])]
           reading_data == readings[reading_index]
       IN  \E created \in {create_notes_for_reading(furigana_generator, word,
                                                     reading_data, tags, lang_code)},
              added \in {_add_media_files(audio_dir, reading_data)} :
               /\ furigana_generator' =
                     [furigana_generator EXCEPT
                         !.debug_mode = debug_for(furigana_generator, word)]
               /\ deck_notes' = deck_notes \o created.notes
               /\ media_files' = media_files \o added.media
               /\ deck_stdout' = deck_stdout \o created.out \o added.out
    /\ reading_index' = reading_index + 1
    /\ UNCHANGED <<engine_vars, nested_data, audio_dir, deck_pc, lang_code,
                   item_index, output_files>>

\* `for reading_data in readings` is exhausted: the next item (line 741)
Next_item ==
    /\ deck_pc = "loop"
    /\ item_index <= Len(nested_data)
    /\ reading_index > Len(readings)
    /\ item_index' = item_index + 1
    /\ reading_index' = 1
    /\ UNCHANGED <<furigana_generator, engine_vars, nested_data, audio_dir,
                   deck_pc, lang_code, deck_notes, media_files, deck_stdout,
                   output_files>>

\* `for item in self.nested_data` is exhausted: lines 764-769
Write_deck ==
    /\ deck_pc = "loop"
    /\ item_index > Len(nested_data)
    /\ output_files' =
          (lang_code :> [notes |-> deck_notes, media_files |-> media_files])
          @@ output_files
    /\ deck_stdout' = deck_stdout
                      \o <<"Deck created: output/japanese_coredeck_" \o lang_code
                           \o ".apkg">>
    /\ deck_pc' = "written"
    /\ UNCHANGED <<furigana_generator, engine_vars, nested_data, audio_dir,
                   lang_code, item_index, reading_index, deck_notes, media_files>>

NextDeck ==
    \/ \E lang \in LangCodes : Call_create_deck_for_language(lang)
    \/ Process_reading
    \/ Next_item
    \/ Write_deck

\* the loop is sequential code: once create_deck_for_language is entered its
\* next statement is executed
SpecDeck ==
    /\ InitBatch
    /\ [][NextDeck]_vars
    /\ WF_vars(Process_reading) /\ WF_vars(Next_item) /\ WF_vars(Write_deck)

(* ------------------------------- claims -------------------------------- *)
\* a call of generate_furigana_word has returned
Returned == pc = "returned" /\ return_line # 0
\* a call of _annotate_kanji_block has returned
BlockReturned == pc = "returned" /\ block_call # no_block_call

\* the claims' "kanji-class character": U+4E00..U+9FAF or the iteration mark
KanjiClass(ch) == (19968 <= ch /\ ch <= 40879) \/ ch = 12293
HasKanjiClass(text) == \E i \in 1..Len(text) : KanjiClass(text[i])

\* the base text of a markup: what is left when tags and glosses are removed
RECURSIVE MarkupBase(_, _)
MarkupBase(m, in_rt) ==
    IF m = <<>> THEN <<>>
    ELSE LET t == Head(m)
         IN  IF t = RT_OPEN THEN MarkupBase(Tail(m), TRUE)
             ELSE IF t = RUBY_CLOSE THEN MarkupBase(Tail(m), FALSE)
             ELSE IF t \in {RUBY_OPEN, KANJI_SPACE} THEN MarkupBase(Tail(m), in_rt)
             ELSE (IF in_rt THEN <<>> ELSE <<t>>) \o MarkupBase(Tail(m), in_rt)

\* the glosses of a markup, concatenated in order
RECURSIVE MarkupGloss(_, _)
MarkupGloss(m, in_rt) ==
    IF m = <<>> THEN <<>>
    ELSE LET t == Head(m)
         IN  IF t = RT_OPEN THEN MarkupGloss(Tail(m), TRUE)
             ELSE IF t = RUBY_CLOSE THEN MarkupGloss(Tail(m), FALSE)
             ELSE IF t \in {RUBY_OPEN, KANJI_SPACE} THEN MarkupGloss(Tail(m), in_rt)
             ELSE (IF in_rt THEN <<t>> ELSE <<>>) \o MarkupGloss(Tail(m), in_rt)

\* the whole surface in one ruby element glossed with the whole reading
WholeWordRuby(surface, reading) ==
    <<RUBY_OPEN>> \o surface \o <<RT_OPEN>> \o reading \o <<RUBY_CLOSE>>

\* r with its first kana voiced, when the voicing table has it
Voiced(r) == <<rendaku_map[r[1]]>> \o Tail(r)
Voicable(r) == r # <<>> /\ r[1] \in DOMAIN rendaku_map

\* C1 (as claimed): when a slash-free target reading is supplied and
\* _align_segments finds no alignment, generate_furigana_word returns the
\* whole surface wrapped in one ruby annotation glossed with the whole target
\* reading, after a warning.
C1_FallbackWrapsWholeWord ==
    (Returned /\ return_line = 439 /\ align_result = None) =>
        /\ furigana_expression = WholeWordRuby(word_str, reading_str)
        /\ stdout = <<WARNING>>

\* C1 (amended): when a slash-free target reading is supplied and
\* _align_segments finds no alignment, generate_furigana_word prints the
\* warning and returns the surface unchanged, with no markup.
C1_FallbackReturnsSurface ==
    (Returned /\ return_line = 439 /\ align_result = None) =>
        /\ furigana_expression = word_str
        /\ stdout = <<WARNING>>

\* C1 witness: a run of two kanji against a one-character reading has failed
\* to align
C1_Witness ==
    /\ Returned /\ return_line = 439 /\ align_result = None
    /\ word_str = <<DAI, DAI>>
    /\ reading_str = <<KA>>

\* C2: generate_furigana_word returns the same markup for every enumeration
\* order of the candidate sets (here: the order of any hash seed against
\* ascending order), and every candidate list of a kanji run of the word is
\* in sorted order (the order of a list does not depend on the reading slice
\* the run is tried against, so the lists are taken against the whole reading).
C2_EnumerationOrderIrrelevant ==
    (Returned /\ return_line = 439) =>
        /\ furigana_expression =
              generate_furigana_word([furigana_generator EXCEPT !.hashseed = 0],
                                     word_str, reading_str).ret
        /\ \A g \in 1..Len(_split_surface(word_str)) :
              LET seg == _split_surface(word_str)[g]
                  lists == candidates_list(furigana_generator, seg[2], reading_str,
                                           Len(seg[2]))
              IN  seg[1] = "K" =>
                      \A c \in 1..Len(lists) : lists[c] = sorted(Range(lists[c]))

\* the surface is one kanji run followed by one literal run; RunLen is the
\* length of the kanji run
RunLen(surface) == CHOOSE k \in 0..Len(surface) :
    /\ \A j \in 1..k : KanjiClass(surface[j])
    /\ k = Len(surface) \/ ~KanjiClass(surface[k + 1])
IsRunThenLiteral(surface) ==
    /\ RunLen(surface) \in 1..(Len(surface) - 1)
    /\ \A j \in (RunLen(surface) + 1)..Len(surface) : ~KanjiClass(surface[j])

\* C3: for a surface made of a kanji run followed by a literal suffix,
\* alignment succeeds only if the normalised suffix equals the normalised last
\* len(suffix) characters of the target reading; on success the kanji run is
\* annotated with exactly the remaining prefix of the reading and the suffix
\* follows the run's markup unannotated, character for character.
C3_LiteralAnchoring ==
    (Returned /\ return_line = 439 /\ IsRunThenLiteral(word_str)
              /\ align_result # None) =>
        LET k == RunLen(word_str)
            run == SubSeq(word_str, 1, k)
            suffix == SubSeq(word_str, k + 1, Len(word_str))
            n == Len(reading_str)
            m == Len(suffix)
            out == furigana_expression
            head == SubSeq(out, 1, Len(out) - m)
        IN  /\ n >= m
            /\ _katakana_to_hiragana(suffix) =
                   _katakana_to_hiragana(SubSeq(reading_str, n - m + 1, n))
            /\ out = align_result
            /\ Len(out) > m
            /\ SubSeq(out, Len(out) - m + 1, Len(out)) = suffix
            /\ head[Len(head)] \in {RUBY_CLOSE, KANJI_SPACE}
            /\ MarkupBase(head, FALSE) = run
            /\ MarkupGloss(head, FALSE) = SubSeq(reading_str, 1, n - m)

\* C3 witness: a two-kanji run with a katakana suffix aligned against a
\* hiragana reading
C3_Witness ==
    /\ Returned /\ return_line = 439 /\ align_result # None
    /\ word_str = <<DAI, ITERATION_MARK, KATAKANA_KA>>
    /\ reading_str = <<KA, GA, KA>>
    /\ MarkupGloss(furigana_expression, FALSE) = <<KA, GA>>

\* C4: for a surface with no kanji-class character and any target reading
\* (absent, empty, with or without a slash) generate_furigana_word returns the
\* surface unchanged at its first return, with no alignment attempted.
C4_NoKanjiIdentity ==
    (Returned /\ ~HasKanjiClass(word_str)) =>
        /\ furigana_expression = word_str
        /\ return_line = 434
        /\ align_result = None
        /\ stdout = <<>>

\* C4 witness: a katakana surface called with a reading that does not match it
C4_Witness ==
    /\ Returned
    /\ word_str = <<KATAKANA_KA, KATAKANA_KA>>
    /\ reading_str = <<GA>>

\* C5: for every surface and every target reading containing '/',
\* generate_furigana_word returns the surface unchanged: no markup, no
\* alignment, no warning.
C5_SlashPassThrough ==
    (Returned /\ reading_str # None /\ SLASH \in Range(reading_str)) =>
        /\ furigana_expression = word_str
        /\ return_line \in {434, 438}
        /\ align_result = None
        /\ stdout = <<>>

\* C5 witness: a kanji surface called with a reading that lists alternatives
C5_Witness ==
    /\ Returned
    /\ word_str = <<DAI>>
    /\ reading_str = <<KA, SLASH, GA>>
    /\ return_line = 438

\* the readings the lexicon records for a word
Recorded(word) ==
    IF word \in DOMAIN furigana_generator.word_dict
    THEN furigana_generator.word_dict[word]
    ELSE <<>>

\* C6: with no target reading (absent or empty) and kanji in the surface, the
\* whole surface is looked up in the lexicon: exactly one recorded reading
\* gives the whole surface in one ruby annotation with that reading, zero or
\* several give the surface unannotated.
C6_LexiconLookup ==
    (Returned /\ HasKanjiClass(word_str) /\ reading_str \in {None, <<>>}) =>
        /\ align_result = None
        /\ IF Len(Recorded(word_str)) = 1
           THEN furigana_expression = WholeWordRuby(word_str, Recorded(word_str)[1])
           ELSE furigana_expression = word_str

\* C6 witness: a word with exactly one recorded reading, called with no reading
C6_Witness ==
    /\ Returned
    /\ reading_str = None
    /\ word_str = <<DAI, ITERATION_MARK>>
    /\ Len(Recorded(word_str)) = 1
    /\ furigana_expression # word_str

\* the engine with tracing disabled
Untraced ==
    [furigana_generator EXCEPT
        !.global_debug = FALSE, !.debug_words = {}, !.debug_mode = FALSE]

\* C7: the string returned with tracing enabled (global_debug, or the word in
\* debug_words) equals the string returned with tracing disabled.
C7_TracingObservational ==
    (Returned /\ furigana_generator.debug_mode) =>
        furigana_expression =
            generate_furigana_word(Untraced, word_str, reading_str).ret

\* C7 witness: a traced call, enabled through debug_words, that aligned a run
\* with an iteration mark
C7_Witness ==
    /\ Returned /\ furigana_generator.debug_mode
    /\ ~furigana_generator.global_debug
    /\ return_line = 439 /\ align_result # None
    /\ word_str = <<DAI, ITERATION_MARK>>

\* C8: in a kanji run with the iteration mark at index i > 0, the candidate
\* list of the mark contains every candidate r of the preceding character and,
\* when r's first kana is a key of the voicing table, r with that kana voiced.
C8_IterationMarkInherits ==
    BlockReturned =>
        \A n \in 2..Len(block_call.block) :
            block_call.block[n] = ITERATION_MARK =>
                \A r \in Range(block_call.candidates_list[n - 1]) :
                    /\ r \in Range(block_call.candidates_list[n])
                    /\ Voicable(r) =>
                           Voiced(r) \in Range(block_call.candidates_list[n])

\* C8 witness: the predecessor has the candidate "ka" and the mark's list
\* holds "ka" and "ga"
C8_Witness ==
    /\ BlockReturned
    /\ block_call.block = <<DAI, ITERATION_MARK>>
    /\ <<KA>> \in Range(block_call.candidates_list[1])
    /\ {<<KA>>, <<GA>>} \subseteq Range(block_call.candidates_list[2])

\* C9 (as claimed): in the exact-match path the reading chosen for an
\* iteration mark at index i > 0 equals the reading chosen for the character
\* at i-1 in the same combination, or its voiced variant.
C9_MarkFollowsChosenReading ==
    (BlockReturned /\ block_call.matching # <<>>) =>
        \A n \in 2..Len(block_call.block) :
            block_call.block[n] = ITERATION_MARK =>
                LET chosen == block_call.matching[1]
                IN  \/ chosen[n] = chosen[n - 1]
                    \/ Voicable(chosen[n - 1]) /\ chosen[n] = Voiced(chosen[n - 1])

\* C9 (amended): in the exact-match path the reading chosen for an iteration
\* mark at index i > 0 equals some candidate reading of the character at i-1,
\* or the voiced variant of one; it need not come from the reading chosen for
\* i-1 in the same combination.
C9_MarkFollowsSomeCandidate ==
    (BlockReturned /\ block_call.matching # <<>>) =>
        \A n \in 2..Len(block_call.block) :
            block_call.block[n] = ITERATION_MARK =>
                LET chosen == block_call.matching[1]
                IN  \E r \in Range(block_call.candidates_list[n - 1]) :
                        \/ chosen[n] = r
                        \/ Voicable(r) /\ chosen[n] = Voiced(r)

\* C9 witness: an exact match in which the mark's reading comes from another
\* candidate of its predecessor than the one chosen
C9_Witness ==
    /\ BlockReturned /\ block_call.matching # <<>>
    /\ block_call.block = <<DAI, ITERATION_MARK>>
    /\ block_call.matching[1] = << <<GA>>, <<KA>> >>

\* the readings the tokenizer and the lexicon give for the iteration mark
MarkBaseReadings ==
    LET tokens == furigana_generator.tokenizer_obj[<<ITERATION_MARK>>]
    IN  {_katakana_to_hiragana(tokens[i]) :
            i \in {j \in 1..Len(tokens) : tokens[j] # <<>>}}
        \cup Range(Recorded(<<ITERATION_MARK>>))

\* C10 (as claimed): when the iteration mark is the first character of a
\* kanji run, its candidate set is exactly {iteration mark}, whatever the
\* tokenizer and the lexicon return for it.
C10_LeadingMarkIsItself ==
    (BlockReturned /\ block_call.block[1] = ITERATION_MARK) =>
        Range(block_call.candidates_list[1]) = {<<ITERATION_MARK>>}

\* C10 (amended): when the iteration mark is the first character of a kanji
\* run it is treated as an ordinary character: its candidate set is the
\* readings the tokenizer and the lexicon give for it together with their
\* voiced variants, and it is {iteration mark} only when they give none.
C10_LeadingMarkIsOrdinary ==
    (BlockReturned /\ block_call.block[1] = ITERATION_MARK) =>
        LET cands == Range(block_call.candidates_list[1])
        IN  IF MarkBaseReadings = {}
            THEN cands = {<<ITERATION_MARK>>}
            ELSE cands = MarkBaseReadings \cup
                         {Voiced(r) : r \in {x \in MarkBaseReadings : Voicable(x)}}

\* C10 witness: a leading iteration mark for which the lexicon records readings
C10_Witness ==
    /\ BlockReturned
    /\ block_call.block[1] = ITERATION_MARK
    /\ <<KA, KA>> \in Range(block_call.candidates_list[1])

\* the base candidates of a character: the normalised reading forms of its
\* tokens and the readings the lexicon records for it
BaseReadings(kanji) ==
    LET tokens == furigana_generator.tokenizer_obj[kanji]
    IN  {_katakana_to_hiragana(tokens[i]) :
            i \in {j \in 1..Len(tokens) : tokens[j] # <<>>}}
        \cup Range(Recorded(kanji))

\* C11: for every non-iteration character of a run, the set returned by
\* _get_candidate_readings (and fed to the block matcher) is, when there is a
\* base candidate, exactly the base candidates together with, for each base
\* candidate whose first kana is a key of the voicing table, that candidate
\* with only its first kana voiced.
C11_RendakuExpansion ==
    BlockReturned =>
        \A n \in 1..Len(block_call.block) :
            LET ch == <<block_call.block[n]>>
                base == BaseReadings(ch)
                got == _get_candidate_readings(furigana_generator, ch)
                own == IF Len(block_call.block) = 1
                       THEN {block_call.block_reading} ELSE {}
            IN  (ch # <<ITERATION_MARK>> /\ base # {}) =>
                    /\ got = base \cup {Voiced(b) : b \in {x \in base : Voicable(x)}}
                    /\ Range(block_call.candidates_list[n]) = got \cup own

\* C11 witness: a character whose tokenizer reading is "kaka" has the
\* candidates "kaka" and "gaka", and not "gaga"
C11_Witness ==
    /\ BlockReturned
    /\ block_call.block = <<DAI, DAI>>
    /\ <<KA, KA>> \in BaseReadings(<<DAI>>)
    /\ {<<KA, KA>>, <<GA, KA>>} \subseteq Range(block_call.candidates_list[1])
    /\ <<GA, GA>> \notin Range(block_call.candidates_list[1])

\* C12: for a surface that is a single kanji-class character whose candidate
\* set contains the supplied target reading, generate_furigana_word returns
\* that character in one ruby annotation carrying exactly that reading,
\* followed by the spacer marker.
C12_ExactSingleKanji ==
    (Returned /\ Len(word_str) = 1 /\ KanjiClass(word_str[1])
              /\ reading_str \in _get_candidate_readings(furigana_generator, word_str)) =>
        /\ return_line = 439
        /\ furigana_expression =
              <<RUBY_OPEN, word_str[1], RT_OPEN>> \o reading_str
                  \o <<RUBY_CLOSE, KANJI_SPACE>>
        /\ stdout = <<>>

\* C12 witness: the two-kana reading of a kanji is among its candidates next
\* to shorter ones, and the call has returned
C12_Witness ==
    /\ Returned
    /\ word_str = <<DAI>>
    /\ reading_str = <<GA, KA>>
    /\ {<<GA>>, <<GA, KA>>} \subseteq _get_candidate_readings(furigana_generator, word_str)

\* the normalised reading forms of the tokens of a character
TokenReadings(kanji) ==
    LET tokens == furigana_generator.tokenizer_obj[kanji]
    IN  {_katakana_to_hiragana(tokens[i]) :
            i \in {j \in 1..Len(tokens) : tokens[j] # <<>>}}


\* the (word, tags, reading_data) entries of the loaded data in input order,
\* from item i on
RECURSIVE EntriesFrom(_, _)
EntriesFrom(data, i) ==
    IF i > Len(data) THEN <<>>
    ELSE LET it == data[i]
             rs == get(it, "readings", <<>>)
             tr == get(it, "tags", <<>>)
         IN  [j \in DOMAIN rs |->
                 [word |-> get(it, "word", <<>>),
                  tags |-> [k \in DOMAIN tr |-> replace_spaces(tr[k])],
                  reading_data |-> rs[j]]]
             \o EntriesFrom(data, i + 1)

Entries == EntriesFrom(nested_data, 1)

\* the notes of one entry, and of the first n entries in order
EntryNotes(e) ==
    create_notes_for_reading(furigana_generator, e.word, e.reading_data, e.tags,
                             lang_code).notes

RECURSIVE NotesOfFirst(_)
NotesOfFirst(n) ==
    IF n = 0 THEN <<>> ELSE NotesOfFirst(n - 1) \o EntryNotes(Entries[n])

\* how many entries the loops have been through
RECURSIVE ReadingsBefore(_)
ReadingsBefore(i) ==
    IF i <= 1 THEN 0
    ELSE ReadingsBefore(i - 1) + Len(get(nested_data[i - 1], "readings", <<>>))

Processed == ReadingsBefore(item_index) + (reading_index - 1)

\* the call generate_furigana_word makes for an entry
EntryCall(e) ==
    generate_furigana_word(furigana_generator, e.word,
                           get(e.reading_data, "reading", <<>>))

AlignmentFails(e) == EntryCall(e).path = 439 /\ EntryCall(e).result = None
Ambiguous(e) == EntryCall(e).path = 438

\* the deck is complete: every entry went through the loops and the file
\* written for the language holds the notes of all entries in input order
DeckWritten ==
    /\ deck_pc = "written"
    /\ Processed = Len(Entries)
    /\ lang_code \in DOMAIN output_files
    /\ output_files[lang_code].notes = NotesOfFirst(Len(Entries))

\* while a deck is built its notes are those of the entries gone through, in
\* input order, each entry with at least its reading note; a deck is written
\* only when complete
InInputOrder ==
    /\ deck_pc \in {"idle", "loop", "written"}
    /\ deck_pc = "loop" =>
          /\ Processed <= Len(Entries)
          /\ deck_notes = NotesOfFirst(Processed)
          /\ \A n \in 1..Processed :
                /\ EntryNotes(Entries[n]) # <<>>
                /\ EntryNotes(Entries[n])[1].model = "reading"
                /\ EntryNotes(Entries[n])[1].word_str = Entries[n].word
    /\ deck_pc = "written" => DeckWritten

\* C13: in create_deck_for_language a word whose alignment fails or whose
\* reading is ambiguous does not abort the batch: the entries of the loaded
\* data are gone through in input order, each yields its notes, every entry is
\* eventually processed, and the deck is written afterwards.
C13_BatchCompletes ==
    /\ []InInputOrder
    /\ (deck_pc = "loop") ~> DeckWritten

\* C13 witness: a deck was written for a batch with an entry whose alignment
\* fails and an entry whose reading is ambiguous
C13_Witness ==
    /\ DeckWritten
    /\ \E n \in DOMAIN Entries : AlignmentFails(Entries[n])
    /\ \E n \in DOMAIN Entries : Ambiguous(Entries[n])
    /\ Len(output_files[lang_code].notes) > Len(Entries)

\* C14: when the lexicon file is absent the engine is constructed all the
\* same: load_jmdict has logged its warning and returned an empty mapping, so
\* every lexicon lookup yields nothing: with no target reading every kanji
\* surface is returned unannotated, and the candidates of a character are its
\* tokenizer readings and their voiced variants (the character itself when
\* there is none).
C14_AbsentLexicon ==
    load_stdout # <<>> =>
        /\ load_stdout = <<"JMdict file not found">>
        /\ furigana_generator.word_dict = <<>>
        /\ (Returned /\ HasKanjiClass(word_str) /\ reading_str \in {None, <<>>}) =>
               /\ furigana_expression = word_str
               /\ return_line = 444
        /\ \A kanji \in KanjiTexts :
               _get_candidate_readings(furigana_generator, kanji) =
                   IF TokenReadings(kanji) = {}
                   THEN {kanji}
                   ELSE TokenReadings(kanji) \cup
                        {Voiced(r) : r \in {x \in TokenReadings(kanji) : Voicable(x)}}

\* C14 witness: an engine built without the lexicon file has answered a call
\* with no target reading for a word the lexicon file would have resolved
C14_Witness ==
    /\ load_stdout # <<>>
    /\ Returned
    /\ word_str = <<DAI, ITERATION_MARK>>
    /\ reading_str = None
    /\ furigana_expression = word_str
    /\ TokenReadings(<<DAI>>) # {}

\* neither an exact candidate combination nor a valid partition of the reading
\* slice exists for the run of the returned _annotate_kanji_block call
NoBlockMatch ==
    /\ block_call.matching = <<>>
    /\ valid_splits(furigana_generator, block_call.block,
                    _generate_splits(block_call.block_reading,
                                     Len(block_call.block))) = <<>>

\* C15 (as claimed): _annotate_kanji_block returns no markup (failure)
\* whenever neither an exact candidate combination nor a valid partition of
\* the reading slice exists for the kanji run.
C15_BlockReportsFailure ==
    (BlockReturned /\ NoBlockMatch) => block_call.ret = None

\* C15 (amended): _annotate_kanji_block never reports failure; whenever
\* neither an exact candidate combination nor a valid partition exists it
\* returns the whole run in one ruby annotation glossed with the whole reading
\* slice, without spacer marker.
C15_BlockFallsBackToWholeRun ==
    BlockReturned =>
        /\ block_call.ret # None
        /\ NoBlockMatch =>
               block_call.ret =
                   WholeWordRuby(block_call.block, block_call.block_reading)

\* C15 witness: a run of two kanji without known readings, against a slice of
\* three kana
C15_Witness ==
    /\ BlockReturned /\ NoBlockMatch
    /\ block_call.block = <<DAI, DAI>>
    /\ block_call.block_reading = <<KA, GA, KA>>

\* what _align_segments returns for the returned call's segments and reading
\* when entered at segment g (1-based) and reading offset o
AlignAt(g, o) ==
    _align_segments(furigana_generator, _split_surface(word_str), reading_str,
                    g - 1, o, <<>>).ret

\* the block match of a run on a reading slice succeeds: an exact candidate
\* combination or a valid partition exists
BlockMatches(block, block_reading) ==
    \/ matching_combos(furigana_generator, block, block_reading) # <<>>
    \/ valid_splits(furigana_generator, block,
                    _generate_splits(block_reading, Len(block))) # <<>>

\* the largest element of a non-empty set of lengths
Largest(Ls) == CHOOSE L \in Ls : \A M \in Ls : M <= L

\* the number of surface characters before segment g
StartOf(g) ==
    Len(join([j \in 1..(g - 1) |-> _split_surface(word_str)[j][2]]))

\* the kanji runs of the returned call's surface, each with the reading
\* offsets it can be met at: 0 for the first segment, and for a later one at
\* least one reading character per surface character before it
RunStates ==
    {<<g, o>> \in (1..Len(_split_surface(word_str))) \X (0..Len(reading_str)) :
        /\ _split_surface(word_str)[g][1] = "K"
        /\ IF g = 1 THEN o = 0 ELSE o >= StartOf(g)}

\* the slice lengths tried for run g at offset o: len(reading)-o down to len(run)
TriedLengths(g, o) ==
    Len(_split_surface(word_str)[g][2])..(Len(reading_str) - o)

\* what the returned call's _align_segments returned at segment g and offset
\* o: for the top-level state the value _annotate_word received
Aligned(g, o) == IF g = 1 /\ o = 0 THEN align_result ELSE AlignAt(g, o)

\* C16 (as claimed): a kanji run met at offset o is assigned the largest
\* tried L for which both the block match on reading[o:o+L] succeeds and the
\* remaining segments align with reading[o+L:]; when there is no such L the
\* alignment fails at that state.
C16_LargestMatchingLength ==
    (Returned /\ return_line = 439) =>
        \A st \in RunStates :
            LET g == st[1]
                o == st[2]
                run == _split_surface(word_str)[g][2]
            IN  \A Ls \in {{L \in TriedLengths(g, o) :
                              /\ BlockMatches(run, Slice(reading_str, o, o + L))
                              /\ AlignAt(g + 1, o + L) # None}} :
                    Aligned(g, o) =
                        IF Ls = {} THEN None
                        ELSE _annotate_kanji_block(furigana_generator, run,
                                 Slice(reading_str, o, o + Largest(Ls)))
                             \o AlignAt(g + 1, o + Largest(Ls))

\* C16 (amended): a kanji run met at offset o is assigned the largest tried L
\* (from len(reading)-o down to len(run)) for which the remaining segments
\* align with reading[o+L:], whether or not the block match on reading[o:o+L]
\* finds an exact combination or a valid partition; when there is no such L
\* the alignment fails at that state.
C16_LargestContinuingLength ==
    (Returned /\ return_line = 439) =>
        \A st \in RunStates :
            LET g == st[1]
                o == st[2]
                run == _split_surface(word_str)[g][2]
            IN  \A Ls \in {{L \in TriedLengths(g, o) :
                              AlignAt(g + 1, o + L) # None}} :
                    Aligned(g, o) =
                        IF Ls = {} THEN None
                        ELSE _annotate_kanji_block(furigana_generator, run,
                                 Slice(reading_str, o, o + Largest(Ls)))
                             \o AlignAt(g + 1, o + Largest(Ls))

\* C16 witness: a run whose block match fails on the only slice length the
\* continuation accepts is aligned with that length all the same
C16_Witness ==
    /\ Returned /\ return_line = 439
    /\ word_str = <<DAI, DAI, KATAKANA_KA>>
    /\ reading_str = <<GA, KA, KA>>
    /\ ~BlockMatches(<<DAI, DAI>>, <<GA, KA>>)
    /\ align_result = WholeWordRuby(<<DAI, DAI>>, <<GA, KA>>) \o <<KATAKANA_KA>>

\* C17: for every surface, _split_surface returns segments such that (1) the
\* segment texts concatenated in order give the surface, (2) no segment is
\* empty, (3) no two adjacent segments have the same tag, and (4) a segment
\* is tagged 'K' exactly when all its characters are kanji-class and 'L'
\* exactly when none is.
C17_SegmentsPartitionSurface ==
    Returned =>
        \A segments \in {_split_surface(word_str)} :
            /\ join([g \in 1..Len(segments) |-> segments[g][2]]) = word_str
            /\ \A g \in 1..Len(segments) :
                  LET typ == segments[g][1]
                      text == segments[g][2]
                  IN  /\ text # <<>>
                      /\ typ \in {"K", "L"}
                      /\ typ = "K" <=> \A i \in 1..Len(text) : KanjiClass(text[i])
                      /\ typ = "L" <=> \A i \in 1..Len(text) : ~KanjiClass(text[i])
            /\ \A g \in 1..(Len(segments) - 1) :
                  segments[g][1] # segments[g + 1][1]

\* C17 witness: a call that split a surface with a two-character kanji run
\* (kanji and iteration mark) followed by a literal
C17_Witness ==
    /\ Returned /\ return_line = 439
    /\ word_str = <<DAI, ITERATION_MARK, KATAKANA_KA>>
    /\ _split_surface(word_str) =
           << <<"K", <<DAI, ITERATION_MARK>> >>, <<"L", <<KATAKANA_KA>> >> >>

\* C18: every per-character candidate list the block matcher uses is
\* non-empty: _get_candidate_readings returns the character itself as sole
\* candidate when the tokenizer and the lexicon yield nothing for it, and the
\* list built for an iteration mark at index i > 0 from its predecessor's
\* candidates is non-empty too.
C18_CandidatesNonEmpty ==
    BlockReturned =>
        \A n \in 1..Len(block_call.block) :
            LET ch == <<block_call.block[n]>>
            IN  /\ block_call.candidates_list[n] # <<>>
                /\ _get_candidate_readings(furigana_generator, ch) # {}
                /\ BaseReadings(ch) = {} =>
                       _get_candidate_readings(furigana_generator, ch) = {ch}
                /\ (BaseReadings(ch) = {} /\ (n = 1 \/ ch # <<ITERATION_MARK>>)
                                          /\ Len(block_call.block) > 1) =>
                       block_call.candidates_list[n] = <<ch>>

\* C18 witness: a kanji without tokenizer or lexicon reading, followed by an
\* iteration mark whose list is derived from the kanji's fallback candidate
C18_Witness ==
    /\ BlockReturned
    /\ block_call.block = <<DAI, ITERATION_MARK>>
    /\ BaseReadings(<<DAI>>) = {}
    /\ block_call.candidates_list = << << <<DAI>> >>, << <<DAI>> >> >>

\* a freshly constructed instance with the resources and the constructor
\* arguments of the engine in use
FreshInstance ==
    [furigana_generator EXCEPT !.debug_mode = FALSE, !.cache = <<>>]

\* C19: after any sequence of generate_furigana_word calls on one engine
\* instance, a call returns what the same call returns on a freshly
\* constructed instance with the same resources (same string, same output,
\* same exit, same alignment), and it leaves the instance as it would leave
\* the fresh one: the debug flag depends on this call's word only and the
\* cache is never written.
C19_HistoryIndependent ==
    Returned =>
        \A r \in {generate_furigana_word(FreshInstance, word_str, reading_str)} :
            /\ furigana_expression = r.ret
            /\ stdout = r.out
            /\ return_line = r.path
            /\ align_result = r.result
            /\ furigana_generator.debug_mode = debug_for(FreshInstance, word_str)
            /\ furigana_generator.cache = FreshInstance.cache

\* C19 witness: an engine that traces one word has returned from an aligned
\* call for another word, with its debug flag off
C19_Witness ==
    /\ Returned /\ return_line = 439 /\ align_result # None
    /\ furigana_generator.debug_words = {<<DAI, ITERATION_MARK>>}
    /\ word_str = <<DAI, DAI>>
    /\ ~furigana_generator.debug_mode

\* the number of spacer markers in a markup
SpacerCount(m) == Cardinality({i \in 1..Len(m) : m[i] = KANJI_SPACE})

\* every ruby element of the markup wraps exactly one character and is
\* immediately followed by exactly one spacer marker, and no spacer stands
\* anywhere else
OneRubyPerCharacter(m) ==
    /\ \A i \in 1..Len(m) :
          m[i] = RUBY_OPEN =>
              /\ i + 2 <= Len(m)
              /\ m[i + 1] >= 0
              /\ m[i + 2] = RT_OPEN
    /\ \A i \in 1..Len(m) :
          m[i] = RUBY_CLOSE => (i < Len(m) /\ m[i + 1] = KANJI_SPACE)
    /\ \A i \in 1..Len(m) :
          m[i] = KANJI_SPACE => (i > 1 /\ m[i - 1] = RUBY_CLOSE)

RECURSIVE RubyEach(_, _)
RubyEach(block, parts) ==
    IF block = <<>> \/ parts = <<>> THEN <<>>
    ELSE <<RUBY_OPEN, block[1], RT_OPEN>> \o parts[1] \o <<RUBY_CLOSE, KANJI_SPACE>>
         \o RubyEach(Tail(block), Tail(parts))

\* the choices of one candidate per character, as tuples of positions in the
\* per-character candidate lists of the returned call
Choices ==
    LET cl == block_call.candidates_list
        longest == Largest({0} \cup {Len(cl[i]) : i \in DOMAIN cl})
    IN  {idx \in [DOMAIN cl -> 1..longest] : \A i \in DOMAIN cl : idx[i] <= Len(cl[i])}

ChoiceReadings(idx) ==
    [i \in DOMAIN idx |-> block_call.candidates_list[i][idx[i]]]

RECURSIVE Concat(_)
Concat(parts) == IF parts = <<>> THEN <<>> ELSE parts[1] \o Concat(Tail(parts))

\* the choices that concatenate to exactly the reading slice
ExactChoices == {idx \in Choices : Concat(ChoiceReadings(idx)) = block_call.block_reading}

\* Cartesian-product order with the leftmost character varying slowest
ChoiceBefore(a, b) ==
    \E i \in DOMAIN a : a[i] < b[i] /\ \A j \in 1..(i - 1) : a[j] = b[j]

FirstExactChoice ==
    CHOOSE idx \in ExactChoices : \A other \in ExactChoices \ {idx} : ChoiceBefore(idx, other)

\* the sum of a tuple of numbers
RECURSIVE SumOf(_)
SumOf(ls) == IF ls = <<>> THEN 0 ELSE ls[1] + SumOf(Tail(ls))

\* a direct run of the best-split scan has returned
SplitReturned == pc = "returned" /\ split_call # no_split_call

\* len(block) times the cost of a partition of the returned scan: the sum over
\* the parts of |len(part) - len(slice) / len(block)|, in whole numbers
PartitionCost(parts) ==
    LET n == split_call.nblock
        len == Len(split_call.block_reading)
        dev(i) == IF Len(parts[i]) * n >= len
                  THEN Len(parts[i]) * n - len
                  ELSE len - Len(parts[i]) * n
    IN  SumOf([i \in DOMAIN parts |-> dev(i)])

PartLengths(parts) == [i \in DOMAIN parts |-> Len(parts[i])]

\* tuple a is lexicographically greater than tuple b
LexGreater(a, b) ==
    \E i \in DOMAIN a : a[i] > b[i] /\ \A j \in 1..(i - 1) : a[j] = b[j]

\* the partition the claim selects from a set of valid partitions
Preferred(valid) ==
    {p \in valid :
        \A q \in valid \ {p} :
            \/ PartitionCost(p) < PartitionCost(q)
            \/ /\ PartitionCost(p) = PartitionCost(q)
               /\ LexGreater(PartLengths(p), PartLengths(q))}

\* C21: among the valid partitions of the reading slice into len(run)
\* non-empty contiguous parts the chosen partition has minimum cost (the sum
\* over the parts of |len(part) - len(slice)/len(run)|), and among those of
\* minimum cost it is the one whose tuple of part lengths is lexicographically
\* greatest, in whatever order the partitions are enumerated.
C21_MinimumCostPartition ==
    SplitReturned =>
        Preferred(Range(split_call.valid_splits)) = {split_call.best_split}

\* C21 witness: the scan met a partition of higher cost first, then two
\* partitions of equal lower cost, the lexicographically greater one last
C21_Witness ==
    /\ SplitReturned
    /\ Len(split_call.valid_splits) = 3
    /\ PartitionCost(split_call.valid_splits[1]) > PartitionCost(split_call.valid_splits[2])
    /\ PartitionCost(split_call.valid_splits[2]) = PartitionCost(split_call.valid_splits[3])
    /\ split_call.best_split = split_call.valid_splits[3]

\* C22: whenever some choice of one candidate per character concatenates to
\* exactly the reading slice, the run is rendered with the first such choice
\* in Cartesian-product order over the per-character candidate lists (leftmost
\* character varying slowest), whatever the partition search would give; the
\* partition search decides the markup only when no such choice exists.
C22_ExactPathFirst ==
    BlockReturned =>
        /\ ExactChoices # {} =>
              block_call.ret = RubyEach(block_call.block, ChoiceReadings(FirstExactChoice))
        /\ (ExactChoices = {}) = (block_call.matching = <<>>)

\* C22 witness: a run with several exact choices and a valid partition that
\* differs from the first exact choice
C22_Witness ==
    /\ BlockReturned
    /\ Cardinality(ExactChoices) >= 2
    /\ block_call.ret = RubyEach(block_call.block, ChoiceReadings(FirstExactChoice))
    /\ \E split \in Range(valid_splits(furigana_generator, block_call.block,
                              _generate_splits(block_call.block_reading,
                                               Len(block_call.block)))) :
           split # ChoiceReadings(FirstExactChoice)

\* the valid partitions the fallback of the returned call found
ValidPartitions ==
    Range(valid_splits(furigana_generator, block_call.block,
                       _generate_splits(block_call.block_reading, Len(block_call.block))))

\* the fallback path rendered the run of the returned call with a partition
FallbackRendered == BlockReturned /\ block_call.matching = <<>> /\ ValidPartitions # {}

\* C23: in the fallback partition path a part assigned to an iteration mark at
\* index i > 0 is accepted only if it belongs to the iteration mark's own
\* candidate set as built for the run (the readings of the preceding
\* character or their voiced variants): each part is validated against the
\* per-character candidate set the exact path used.
C23_FallbackUsesRunCandidates ==
    FallbackRendered =>
        \A parts \in ValidPartitions :
            /\ block_call.ret = RubyEach(block_call.block, parts) =>
                  \A i \in 2..Len(block_call.block) :
                      block_call.block[i] = ITERATION_MARK =>
                          parts[i] \in Range(block_call.candidates_list[i])

\* the partitions of the reading slice of the returned call into one non-empty
\* contiguous part per character, as tuples of part lengths
Partitions ==
    LET n == Len(block_call.block)
        len == Len(block_call.block_reading)
    IN  {ls \in [1..n -> 1..len] : SumOf(ls) = len}

\* the parts of the reading slice with the given lengths
RECURSIVE PartsOf(_, _)
PartsOf(reading, ls) ==
    IF ls = <<>> THEN <<>>
    ELSE <<SubSeq(reading, 1, ls[1])>>
         \o PartsOf(SubSeq(reading, ls[1] + 1, Len(reading)), Tail(ls))

\* every part is a candidate reading of its character
AllPartsCandidates(parts) ==
    \A i \in 1..Len(parts) :
        parts[i] \in _get_candidate_readings(furigana_generator, <<block_call.block[i]>>)

\* C27: for a kanji run without iteration mark the partition fallback finds
\* no valid partition when it is reached (a partition whose parts are all
\* candidates of their characters is an exact combination), so the run is
\* rendered either per character by the exact path or as one annotation of
\* the whole run with the entire slice.
C27_NoFallbackWithoutMark ==
    (BlockReturned /\ ITERATION_MARK \notin Range(block_call.block)) =>
        /\ block_call.matching = <<>> =>
              /\ \A ls \in Partitions :
                    ~AllPartsCandidates(PartsOf(block_call.block_reading, ls))
              /\ block_call.ret =
                    WholeWordRuby(block_call.block, block_call.block_reading)
        /\ block_call.matching # <<>> =>
              block_call.ret = RubyEach(block_call.block, block_call.matching[1])

\* C27 witness: the fallback was reached for a run of two kanji with known
\* readings and a slice of three kana, and the run was annotated as a whole
C27_Witness ==
    /\ BlockReturned
    /\ block_call.block = <<DAI, DAI>>
    /\ Len(block_call.block_reading) = 3
    /\ block_call.matching = <<>>
    /\ <<DAI>> \in DOMAIN furigana_generator.word_dict
    /\ block_call.ret = WholeWordRuby(block_call.block, block_call.block_reading)

\* C28: for a kanji run of exactly one character that is not the iteration
\* mark, _annotate_kanji_block annotates the character with the entire reading
\* slice, for every non-empty slice and whatever the tokenizer and the lexicon
\* return for the character: the slice is among the character's candidates
\* and the exact path matches.
C28_SingleCharacterTakesSlice ==
    (/\ BlockReturned
     /\ Len(block_call.block) = 1
     /\ block_call.block[1] # ITERATION_MARK
     /\ block_call.block_reading # <<>>) =>
        /\ block_call.block_reading \in Range(block_call.candidates_list[1])
        /\ block_call.matching # <<>>
        /\ block_call.ret =
              <<RUBY_OPEN, block_call.block[1], RT_OPEN>> \o block_call.block_reading
              \o <<RUBY_CLOSE, KANJI_SPACE>>

\* C28 witness: a single kanji annotated with a slice of three kana that is
\* none of the readings the tokenizer and the lexicon give for it
C28_Witness ==
    /\ BlockReturned
    /\ block_call.block = <<DAI>>
    /\ Len(block_call.block_reading) = 3
    /\ block_call.block_reading \notin _get_candidate_readings(furigana_generator, <<DAI>>)
    /\ <<DAI>> \in DOMAIN furigana_generator.word_dict
    /\ block_call.ret[Len(block_call.ret)] = KANJI_SPACE
    /\ SubSeq(block_call.ret, 4, 6) = block_call.block_reading

\* the segments of the returned call's surface
Segments == _split_surface(word_str)

\* the ways to cut the reading into one consecutive piece per segment: the
\* offsets at which the pieces end, the first piece starting at 0 and the last
\* ending at the end of the reading
RECURSIVE CutsUpTo(_, _)
CutsUpTo(reading, g) ==
    IF g = 0 THEN {(0 :> 0)}
    ELSE UNION {{c @@ (g :> end) : end \in c[g - 1]..Len(reading)} :
                   c \in CutsUpTo(reading, g - 1)}

Cuts(reading) ==
    {c \in CutsUpTo(reading, Len(Segments)) : c[Len(Segments)] = Len(reading)}

Piece(reading, c, g) == SubSeq(reading, c[g - 1] + 1, c[g])

\* katakana of a text replaced by hiragana
Hiragana(text) ==
    [i \in DOMAIN text |->
        IF 12449 <= text[i] /\ text[i] <= 12534 THEN text[i] - 96 ELSE text[i]]

\* a cut that puts every literal segment on its own text (up to kana
\* normalisation) and gives every kanji run at least one reading character per
\* kanji
Fits(reading, c) ==
    \A g \in 1..Len(Segments) :
        IF Segments[g][1] = "L"
        THEN Hiragana(Piece(reading, c, g)) = Hiragana(Segments[g][2])
        ELSE c[g] - c[g - 1] >= Len(Segments[g][2])

\* C25: whether alignment succeeds does not depend on candidate readings:
\* for a surface and a slash-free target reading generate_furigana_word takes
\* the alignment-failure exit exactly when the reading cannot be cut so that
\* every literal segment lies on its own text and every kanji run receives at
\* least as many reading characters as it has kanji, a condition in which the
\* tokenizer and the lexicon do not occur; so it takes that exit under one
\* tokenizer/lexicon content iff it takes it under every other.
C25_SuccessIgnoresCandidates ==
    (Returned /\ return_line = 439) =>
        (align_result = None) = (\A c \in Cuts(reading_str) : ~Fits(reading_str, c))

\* C25 witness: a word aligned although no candidate combination and no valid
\* partition exists for its kanji run, under an engine with lexicon readings
C25_Witness ==
    /\ Returned /\ return_line = 439
    /\ align_result # None
    /\ word_str = <<DAI, DAI, KATAKANA_KA>>
    /\ reading_str = <<KA, GA, KA>>
    /\ <<DAI>> \in DOMAIN furigana_generator.word_dict
    /\ ~BlockMatches(<<DAI, DAI>>, <<KA, GA>>)

\* the characters a markup is read as, in order: the gloss of every ruby
\* element and the text outside ruby elements, each with a flag telling
\* whether it is gloss; part is "text", "base" or "gloss"
RECURSIVE ReadAs(_, _)
ReadAs(m, part) ==
    IF m = <<>> THEN <<>>
    ELSE LET t == Head(m)
         IN  IF t = RUBY_OPEN THEN ReadAs(Tail(m), "base")
             ELSE IF t = RT_OPEN THEN ReadAs(Tail(m), "gloss")
             ELSE IF t = RUBY_CLOSE THEN ReadAs(Tail(m), "text")
             ELSE IF t = KANJI_SPACE THEN ReadAs(Tail(m), part)
             ELSE IF part = "base" THEN ReadAs(Tail(m), part)
             ELSE << <<t, part = "gloss">> >> \o ReadAs(Tail(m), part)

\* C26: whenever _align_segments returns markup for the segments of a surface
\* and a reading, removing every tag and every gloss from the markup leaves
\* exactly the surface, and the glosses of the kanji runs and the texts of the
\* literal segments, concatenated in order, are the whole target reading: the
\* glosses character for character, the literal texts up to
\* katakana-to-hiragana normalisation; nothing is dropped or duplicated.
C26_MarkupCoversSurfaceAndReading ==
    (Returned /\ return_line = 439 /\ align_result # None) =>
        /\ MarkupBase(align_result, FALSE) = word_str
        /\ LET read == ReadAs(align_result, "text")
           IN  /\ Len(read) = Len(reading_str)
               /\ \A i \in 1..Len(read) :
                     IF read[i][2]
                     THEN read[i][1] = reading_str[i]
                     ELSE Hiragana(<<read[i][1]>>) = Hiragana(<<reading_str[i]>>)

\* C26 witness: markup for a surface of a kanji, a katakana literal and an
\* iteration mark, whose literal stands in hiragana in the reading
C26_Witness ==
    /\ Returned /\ return_line = 439 /\ align_result # None
    /\ word_str = <<DAI, KATAKANA_KA, ITERATION_MARK>>
    /\ reading_str = <<GA, KA, GA>>
    /\ ReadAs(align_result, "text") = << <<GA, TRUE>>, <<KATAKANA_KA, FALSE>>, <<GA, TRUE>> >>

\* a top-level call of _align_segments has returned
MemoReturned == pc = "returned" /\ align_call # no_align_call

\* the positions of the call's steps that are a step op of the state key
StepsOf(op, key) ==
    {i \in DOMAIN align_call.log :
        align_call.log[i].op = op /\ align_call.log[i].key = key}

\* the states the call visited below the segment count
VisitedKeys ==
    {align_call.log[i].key :
        i \in {j \in DOMAIN align_call.log : align_call.log[j].op # "end"}}

\* C24: within one top-level _align_segments call, every state (segment index
\* below the segment count, reading offset) has its body evaluated at most
\* once; the body, once entered, ends in exactly one store under the state
\* key, whether it succeeded or failed; every visit of the key after that is
\* answered from the memo with the stored value, and the block matcher is run
\* for the key only inside that one body evaluation, once per slice length.
C24_BodyOncePerKey ==
    MemoReturned =>
        \A key \in VisitedKeys :
            /\ key[1] < Len(align_call.segments)
            /\ Cardinality(StepsOf("body", key)) = 1
            /\ Cardinality(StepsOf("store", key)) = 1
            /\ \E b \in StepsOf("body", key), s \in StepsOf("store", key) :
                  /\ b < s
                  /\ \A h \in StepsOf("hit", key) :
                        s < h /\ align_call.log[h].value = align_call.log[s].value
                  /\ \A m \in StepsOf("block", key) :
                        /\ b < m /\ m < s
                        /\ \A n \in StepsOf("block", key) :
                              m # n => align_call.log[m].L # align_call.log[n].L

\* C24 witness: a call that came back to a state it had already worked out,
\* got the stored failure, and went on to align the whole reading
C24_Witness ==
    /\ MemoReturned
    /\ align_call.ret # None
    /\ \E key \in VisitedKeys :
          /\ StepsOf("hit", key) # {}
          /\ StepsOf("block", key) = {}
          /\ \E s \in StepsOf("store", key) : align_call.log[s].value = None

\* lines 350-391 without lines 345-349 and without the memo[key] assignments:
\* the same recursion with no memo table; returns the Python return value
RECURSIVE align_without_memo(_, _, _, _, _)
RECURSIVE align_kanji_loop_without_memo(_, _, _, _, _, _)
align_without_memo(self, segments, reading, seg_idx, read_idx) ==
    IF seg_idx = Len(segments) /\ read_idx = Len(reading) THEN <<>>
    ELSE IF seg_idx = Len(segments) THEN None
    ELSE LET typ == segments[seg_idx + 1][1]
             seg == segments[seg_idx + 1][2]
         IN  IF typ = "L"
             THEN IF literal_matches(seg, reading, read_idx)
                  THEN LET rest == align_without_memo(self, segments, reading,
                                       seg_idx + 1, read_idx + Len(seg))
                       IN  IF rest # None THEN seg \o rest ELSE None
                  ELSE None
             ELSE align_kanji_loop_without_memo(self, segments, reading, seg_idx,
                                                read_idx, Len(reading) - read_idx)

align_kanji_loop_without_memo(self, segments, reading, seg_idx, read_idx, L) ==
    LET seg == segments[seg_idx + 1][2]
    IN  IF L < Len(seg) THEN None
        ELSE LET block_reading == Slice(reading, read_idx, read_idx + L)
                 annotated == _annotate_kanji_block(self, seg, block_reading)
                 rest == align_without_memo(self, segments, reading,
                                            seg_idx + 1, read_idx + L)
             IN  IF rest # None THEN annotated \o rest
                 ELSE align_kanji_loop_without_memo(self, segments, reading,
                                                    seg_idx, read_idx, L - 1)

\* the steps of the call that were answered from the memo
MemoHits == {i \in DOMAIN align_call.log : align_call.log[i].op = "hit"}

\* C29: for every segment list and reading, _align_segments with its memo
\* table returns the same value, the same markup or failure, as the same
\* recursion run without any memo table.
C29_MemoKeepsResult ==
    MemoReturned =>
        LET plain == align_without_memo(furigana_generator, align_call.segments,
                                        align_call.reading, 0, 0)
        IN  /\ align_call.ret = plain
            /\ _align_segments(furigana_generator, align_call.segments,
                               align_call.reading, 0, 0, <<>>).ret = plain

\* C29 witness: a call that was answered from the memo and found no alignment
C29_Witness ==
    MemoReturned /\ align_call.ret = None /\ MemoHits # {}

\* the segment a state of the call stands on
SegmentAt(key) == align_call.segments[key[1] + 1]

\* step i of the call enters a state: a recursive call of _align_segments
Enters(i) == align_call.log[i].op \in {"body", "hit", "end"}

\* step i is where the state `key` is entered from: the block step of a
\* kanji state, or the body step of a literal state, one segment before it
CallsInto(i, key) ==
    LET step == align_call.log[i]
    IN  /\ step.key[1] + 1 = key[1]
        /\ \/ /\ step.op = "block"
              /\ key[2] = step.key[2] + step.L
           \/ /\ step.op = "body"
              /\ SegmentAt(step.key)[1] = "L"
              /\ key[2] = step.key[2] + Len(SegmentAt(step.key)[2])

\* 2^n
RECURSIVE TwoTo(_)
TwoTo(n) == IF n = 0 THEN 1 ELSE 2 * TwoTo(n - 1)

\* C30: generate_furigana_word comes back with a string, and the recursion
\* under it is bounded: the top-level _align_segments call starts at state
\* (0, 0); every recursive call is made from a state one segment earlier, so
\* the segment index strictly increases down the recursion; the reading offset
\* of every call lies within 0..len(reading); the slice lengths a kanji state
\* tries lie between the run length and the rest of the reading and strictly
\* decrease; and the partition generator, for such a slice and run, returns at
\* most 2^len(slice) splits, each of len(run) non-empty parts making up the
\* slice.
C30_TerminatesWithString ==
    /\ Returned =>
          /\ furigana_expression # None
          /\ \A i \in DOMAIN furigana_expression : furigana_expression[i] # NONE
    /\ MemoReturned =>
          LET log == align_call.log
              reading == align_call.reading
          IN  /\ log # <<>> /\ log[1].key = <<0, 0>>
              /\ \A i \in DOMAIN log :
                    /\ log[i].key[1] \in 0..Len(align_call.segments)
                    /\ log[i].key[2] \in 0..Len(reading)
                    /\ (i > 1 /\ Enters(i)) => CallsInto(i - 1, log[i].key)
                    /\ log[i].op = "block" =>
                          LET run == SegmentAt(log[i].key)[2]
                              slice == Slice(reading, log[i].key[2],
                                             log[i].key[2] + log[i].L)
                              splits == _generate_splits(slice, Len(run))
                          IN  /\ Len(run) <= log[i].L
                              /\ log[i].L <= Len(reading) - log[i].key[2]
                              /\ \A j \in DOMAIN log :
                                    (i < j /\ log[j].op = "block"
                                        /\ log[j].key = log[i].key) =>
                                        log[j].L < log[i].L
                              /\ Len(splits) <= TwoTo(Len(slice))
                              /\ \A p \in DOMAIN splits :
                                    /\ Len(splits[p]) = Len(run)
                                    /\ \A q \in DOMAIN splits[p] : splits[p][q] # <<>>
                                    /\ Concat(splits[p]) = slice

\* C30 witness: a call whose first kanji state tried at least three slice
\* lengths before the rest of the surface aligned, and returned markup
C30_Witness ==
    /\ MemoReturned
    /\ align_call.ret # None
    /\ Cardinality(StepsOf("block", <<0, 0>>)) >= 3
    /\ \E i \in DOMAIN align_call.log : align_call.log[i].op = "end"

====
